---- MODULE Spec2Model ----
(***************************************************************************)
(* Signaling relay (src/server.js, first revision, lines 1-122) and the    *)
(* room page client (src/src/app/room/[roomId]/page.tsx, first revision,   *)
(* lines 1-972) of happy-fox-devs/meets.                                   *)
(*                                                                         *)
(* Spec       the closed system: the relay and the page clients, joined by *)
(*            one FIFO channel per socket and direction.                   *)
(***************************************************************************)
EXTENDS Integers, Sequences, FiniteSets, TLC

\* ------------------------------------------------------------------ bounds

\* Trickled candidates the SimplePeer instances emit, all together.
MaxCandidates == 1

\* Pages that leave the room by the user's leaveRoom, all together.
MaxLeaves == 1

\* Pages whose getUserMedia resolves before the socket's "connect", all together.
MaxEarlyJoins == 1

\* Packets the environment of SpecPage delivers to the page under test.
MaxInjected == 3

\* Packets the sockets of SpecRelay send to the relay.
MaxSent == 3

\* ---------------------------------------------------------------- constants

\* socket ids: one per page client
Clients == {"s1", "s2", "s3"}

\* the value socketRx.id has before the "connect" event (undefined, null on the wire)
NoId == "undefined"

None == "none"

\* params.roomId of every page in the model
RoomIds == {"R"}

WHITELIST == {"admin", "user1", "user2", "alice", "bob"}

Participant == "Participant"

\* searchParams.get("name") of each page
NameChoices(c) ==
  CASE c = "s1" -> {"alice"}
    [] c = "s2" -> {"bob"}
    [] OTHER    -> {"user1", "eve"}

Names == UNION {NameChoices(c) : c \in Clients}

VARIABLES
  \* ---- server.js
  connected,   \* sockets of io.on("connection") that have not disconnected
  rooms,       \* socket -> rooms joined with socket.join
  userNames,   \* the userNames Map: socket.id -> userName (None: no entry)
  hooks,       \* socket -> the "disconnect" listeners registered by join-room
  \* ---- the wire
  toServer,    \* socket -> packets emitted by the client, in order
  toClient,    \* socket -> packets emitted to the client, in order
  \* ---- page.tsx
  cphase,      \* "idle" (getUserMedia pending), "joined", "denied" (getUserMedia
               \* rejected), "gone" (unmounted)
  userName,    \* searchParams.get("name")
  peersRef,    \* peersRef.current: the list of PeerRef
  \* ---- counters that bound the model
  nCandidates, \* candidates emitted so far
  nLeaves,     \* leaveRoom calls so far
  nEarlyJoins, \* join-room packets emitted before "connect" so far
  nInjected,   \* packets the environment of SpecPage delivered so far
  nSent,       \* packets the sockets of SpecRelay sent so far
  \* ---- history
  lastDup,     \* the last user-connected or offer the page under test handled while
               \* it had a PeerRef for the packet's id
  joinOrder    \* the sockets whose join-room the relay accepted, in that order

VARIABLES
  \* ---- page.tsx, local media
  stream,         \* page -> the stream state is set
  muted,          \* page -> the muted state
  videoOff,       \* page -> the videoOff state
  restartingMode, \* page -> the restartingMode state: None, "audio" or "video"
  error,          \* page -> the error state is set
  loops,          \* page -> the requestAnimationFrame loops of the monitor that run
  restarts,       \* page -> the restartMedia calls that have not returned
  tracks,         \* page -> kind -> the track of that kind in streamRef.current: 0 for
                  \* the one of the first getUserMedia, n for the n-th a restart spliced in
  \* ---- the devices
  audioEnded,     \* page -> the stream's audio track is stopped
  videoBad,       \* page -> the stream's video track is ended or muted by the device
  micLevel,       \* page -> the average the microphone gives an analyser
  now,            \* Date.now(), in instants of TickMs
  nToggles,       \* toggleMute and toggleVideo calls so far
  nVideoEnds,     \* VideoTrackEnds so far
  \* ---- history
  quietSince,     \* the instant of the last step of the page's media
  lastAudioStart, \* the instant restartMedia("audio") last got past its guard, or -1
  lastRestartDone,\* the instant a restartMedia call last finished, or -1
  lastFailed      \* the type of the restartMedia call whose getUserMedia was rejected,
                  \* while nothing of the page's media has changed since and no time
                  \* has passed; None otherwise

VARIABLES
  \* ---- page.tsx, the speaker tracker
  audioContextsRef,  \* page -> the peerIds with an entry in audioContextsRef.current
  speakingTimersRef, \* page -> peerId -> its entry in speakingTimersRef.current
  speakingActivity,  \* page -> peerId -> the stamp in the speakingActivity state, or -1
  speakLoops,        \* page -> the requestAnimationFrame loops of the tracker that run
  \* ---- the remote parties
  energy             \* party -> the average its stream gives an analyser, the instant
                     \* that average last changed and the instant it changed before

VARIABLES
  \* ---- page.tsx, the screen
  rendered           \* page -> the peerIds of sortedPeers as last rendered

vars == <<connected, rooms, userNames, hooks, toServer, toClient,
          cphase, userName, peersRef, nCandidates, nLeaves, nEarlyJoins,
          nInjected, nSent, lastDup, joinOrder,
          stream, muted, videoOff, restartingMode, error, loops, restarts, tracks,
          audioEnded, videoBad, micLevel, now, nToggles, nVideoEnds,
          quietSince, lastAudioStart, lastRestartDone, lastFailed,
          audioContextsRef, speakingTimersRef, speakingActivity, speakLoops, energy,
          rendered>>

meshHistory == <<lastDup, joinOrder>>

mediaHistory == <<quietSince, lastAudioStart, lastRestartDone, lastFailed>>

\* the render's output is written by SpecOrder alone and read by no handler
screen == <<rendered>>

history == <<meshHistory, mediaHistory, screen>>

counters == <<nCandidates, nLeaves, nEarlyJoins>>

serverVars == <<connected, rooms, userNames, hooks>>

boundVars == <<nInjected, nSent>>

mediaState == <<muted, videoOff, restartingMode, tracks, audioEnded, videoBad, micLevel,
                restarts, error, now, nToggles, nVideoEnds>>

mediaVars == <<stream, loops, mediaState>>

speakVars == <<audioContextsRef, speakingTimersRef, speakingActivity, speakLoops, energy>>

\* ------------------------------------------------------------------ packets

Msg(t, room, id, name) == [type |-> t, room |-> room, id |-> id, name |-> name]

\* ------------------------------------------------------------------- server

\* The sockets in a socket.io room: every socket is in the room named by its id.
MembersIn(conn, rms, room) == {s \in conn : room = s \/ room \in rms[s]}

Members(room) == MembersIn(connected, rooms, room)

\* io.to(room): every socket of the room, the sender included (a mutant of SocketTo)
SocketToAll(rms, s, room) == MembersIn(connected, rms, room)

\* socket.to(room): the room's sockets except the sender
SocketTo(rms, s, room) == MembersIn(connected, rms, room) \ {s}

\* emit one packet to every socket of targets
Emit(q, targets, m) ==
  [t \in Clients |-> IF t \in targets THEN Append(q[t], m) ELSE q[t]]

ServerHas(s, type) ==
  /\ s \in connected
  /\ toServer[s] # <<>>
  /\ Head(toServer[s]).type = type

\* the accepting branch of socket.on("join-room"), lines 35-49
AcceptJoin(s, m) ==
  /\ userNames' = [userNames EXCEPT ![s] = m.name]
  /\ rooms' = [rooms EXCEPT ![s] = @ \cup {m.room}]
  /\ toClient' = Emit(toClient, SocketTo(rooms', s, m.room),
                      Msg("user-connected", None, m.id, m.name))
  /\ hooks' = [hooks EXCEPT ![s] = Append(@, [room |-> m.room, id |-> m.id])]

\* join-room without the WHITELIST test (a mutant of ServerJoinRoom)
ServerJoinRoomUnchecked(s) ==
  /\ ServerHas(s, "join-room")
  /\ toServer' = [toServer EXCEPT ![s] = Tail(@)]
  /\ AcceptJoin(s, Head(toServer[s]))
  /\ UNCHANGED <<connected, cphase, userName, peersRef, counters, boundVars, mediaVars, speakVars>>

\* socket.on("join-room")
ServerJoinRoom(s) ==
  /\ ServerHas(s, "join-room")
  /\ LET m == Head(toServer[s]) IN
     /\ toServer' = [toServer EXCEPT ![s] = Tail(@)]
     /\ IF m.name \notin WHITELIST
        THEN /\ toClient' = Emit(toClient, {s}, Msg("error", None, None, None))
             /\ UNCHANGED <<rooms, userNames, hooks>>
        ELSE AcceptJoin(s, m)
  /\ UNCHANGED <<connected, cphase, userName, peersRef, counters, boundVars, mediaVars, speakVars>>

\* the user-disconnected packets the disconnect listeners of s emit to t
DisconnectMsgs(s, t) ==
  LET hs == SelectSeq(hooks[s], LAMBDA h : t \in SocketTo(rooms, s, h.room))
  IN  [i \in 1..Len(hs) |-> Msg("user-disconnected", None, hs[i].id, None)]

\* the disconnect listener without userNames.delete (a mutant of ServerDisconnect)
ServerDisconnectKeepName(s) ==
  /\ ServerHas(s, "disconnect")
  /\ toClient' = [t \in Clients |->
                    IF t = s THEN <<>> ELSE toClient[t] \o DisconnectMsgs(s, t)]
  /\ connected' = connected \ {s}
  /\ rooms' = [rooms EXCEPT ![s] = {}]
  /\ hooks' = [hooks EXCEPT ![s] = <<>>]
  /\ toServer' = [toServer EXCEPT ![s] = <<>>]
  /\ UNCHANGED <<userNames, cphase, userName, peersRef, counters, boundVars, mediaVars, speakVars>>

\* The socket closes: socket.io takes it out of every room, then each "disconnect"
\* listener a join-room registered runs (lines 44-49).
ServerDisconnect(s) ==
  /\ ServerHas(s, "disconnect")
  /\ toClient' = [t \in Clients |->
                    IF t = s THEN <<>> ELSE toClient[t] \o DisconnectMsgs(s, t)]
  /\ userNames' = [userNames EXCEPT ![s] = IF hooks[s] = <<>> THEN @ ELSE None]
  /\ connected' = connected \ {s}
  /\ rooms' = [rooms EXCEPT ![s] = {}]
  /\ hooks' = [hooks EXCEPT ![s] = <<>>]
  /\ toServer' = [toServer EXCEPT ![s] = <<>>]
  /\ UNCHANGED <<cphase, userName, peersRef, counters, boundVars, mediaVars, speakVars>>

\* userNames.get(socket.id) || "Participant"
SenderName(s) == IF userNames[s] = None THEN Participant ELSE userNames[s]

\* socket.on("offer"), socket.on("answer")
ServerRelaySdp(s, type) ==
  /\ ServerHas(s, type)
  /\ LET m == Head(toServer[s]) IN
     /\ toServer' = [toServer EXCEPT ![s] = Tail(@)]
     /\ toClient' = Emit(toClient, SocketTo(rooms, s, m.id),
                         Msg(type, None, s, SenderName(s)))
  /\ UNCHANGED <<serverVars, cphase, userName, peersRef, counters, boundVars, mediaVars, speakVars>>

ServerOffer(s) == ServerRelaySdp(s, "offer")

ServerAnswer(s) == ServerRelaySdp(s, "answer")

\* socket.on("ice-candidate")
ServerIceCandidate(s) ==
  /\ ServerHas(s, "ice-candidate")
  /\ LET m == Head(toServer[s]) IN
     /\ toServer' = [toServer EXCEPT ![s] = Tail(@)]
     /\ toClient' = Emit(toClient, SocketTo(rooms, s, m.id),
                         Msg("ice-candidate", None, s, None))
  /\ UNCHANGED <<serverVars, cphase, userName, peersRef, counters, boundVars, mediaVars, speakVars>>

\* ------------------------------------------------------- the media monitor
\* page.tsx 296-377.  The effect runs when stream, muted, videoOff or restartingMode
\* changes.  Each run that passes the early return starts a requestAnimationFrame
\* loop; the loop's callback reads the muted, videoOff and restartingMode of the
\* render that started it.

\* average < SILENCE_THRESHOLD counts as silence
SILENCE_THRESHOLD == 10

\* Date.now() - silenceStart > SILENCE_DURATION triggers the audio restart
SILENCE_DURATION == 10000

\* milliseconds between two instants of the model's clock
TickMs == 5000

\* the clock stops here
MaxTick == 5

\* toggleMute and toggleVideo calls
MaxToggles == 1

\* times the camera's track ends or is muted by the device
MaxVideoEnds == 1

\* the averages an analyser can read: silence, and the threshold itself
Levels == {0, SILENCE_THRESHOLD}

\* what an analyser on the stream's audio track reads: a stopped track is silent
Heard(c) == IF audioEnded[c] THEN 0 ELSE micLevel[c]

\* a loop as the effect starts it: silenceStart = Date.now(), its first frame
\* requested (animationId), its AudioContext open (frozen = -1)
NewLoop(m, v, rm, t) ==
  [muted |-> m, videoOff |-> v, restartingMode |-> rm, silenceStart |-> t,
   first |-> TRUE, cur |-> TRUE, frozen |-> -1, checked |-> FALSE]

RemoveAt(q, i) == SubSeq(q, 1, i - 1) \o SubSeq(q, i + 1, Len(q))

\* The effect's cleanup: cancelAnimationFrame(animationId) stops the loop only while
\* its first frame is pending, since the loop requests its later frames itself;
\* audioContext.close() leaves the analyser with the last data it received.
MonitorCleanup(ls, lvl) ==
  LET Keep(l) == ~(l.cur /\ l.first)
      kept == SelectSeq(ls, Keep)
  IN  [i \in 1..Len(kept) |->
         IF kept[i].cur
         THEN [kept[i] EXCEPT !.cur = FALSE, !.frozen = IF kept[i].muted THEN -1 ELSE lvl]
         ELSE kept[i]]

\* the effect's body: nothing without a stream or while restartingMode is set
MonitorEffect(ls, st, m, v, rm, t) ==
  IF st /\ rm = None THEN Append(ls, NewLoop(m, v, rm, t)) ELSE ls

\* a render with changed dependencies: the last run's cleanup, then the body
RunMonitor(c, ls, st, m, v, rm) ==
  MonitorEffect(MonitorCleanup(ls, Heard(c)), st, m, v, rm, now)

\* ------------------------------------------------------ the speaker tracker
\* page.tsx 380-454.  The effect runs when the peers state changes; the handlers set
\* peers and peersRef.current to the same list.

\* average > SPEAKING_THRESHOLD counts as speaking
SPEAKING_THRESHOLD == 30

\* the delay of the timer that records the stamp
SPEAKING_DURATION_TO_REORDER == 3000

\* milliseconds between two instants of the clock when the tracker is observed
SpeakTickMs == 1000

\* the averages an analyser on a remote stream can read: the threshold, and above it
SpeakLevels == {SPEAKING_THRESHOLD, SPEAKING_THRESHOLD + 1}

\* no entry in speakingTimersRef.current
NoTimer == [start |-> -1, fired |-> FALSE]

\* the peerIds of the list's entries that have a stream
WithStream(prs) == {prs[i].peerId : i \in {j \in 1..Len(prs) : prs[j].stream}}

\* The effect's cleanup: every context closed, which leaves each analyser with the
\* last data it received; every timer cleared; both maps emptied.  The loops are
\* not cancelled.
SpeakerCleanup(ls) ==
  [i \in 1..Len(ls) |->
     IF ls[i].frozen = -1 THEN [ls[i] EXCEPT !.frozen = energy[ls[i].peerId].level]
     ELSE ls[i]]

\* The effect's body: for every entry with a stream and no context yet, a context, an
\* analyser and a loop, whose first frame runs at once.
SpeakerStarted(prs) ==
  LET First(i) == prs[i].stream /\ \A j \in 1..(i - 1) :
                                      ~(prs[j].stream /\ prs[j].peerId = prs[i].peerId)
      idx == SelectSeq([i \in 1..Len(prs) |-> i], First)
  IN  [k \in 1..Len(idx) |->
         [peerId |-> prs[idx[k]].peerId, frozen |-> -1, checked |-> TRUE]]

\* the timers the first frames of the new loops set
SpeakerTimers(prs) ==
  [x \in Clients \cup {NoId} |->
     IF x \in WithStream(prs) /\ energy[x].level > SPEAKING_THRESHOLD
     THEN [start |-> now, fired |-> FALSE]
     ELSE NoTimer]

\* setPeers: a render with a new peers list runs the last run's cleanup and the body;
\* a setPeers that returns the list it was given renders nothing
SetPeers(c, changed) ==
  IF changed
  THEN /\ audioContextsRef' = [audioContextsRef EXCEPT ![c] = WithStream(peersRef'[c])]
       /\ speakingTimersRef' = [speakingTimersRef EXCEPT ![c] = SpeakerTimers(peersRef'[c])]
       /\ speakLoops' = [speakLoops EXCEPT ![c] =
                           SpeakerCleanup(@) \o SpeakerStarted(peersRef'[c])]
       /\ UNCHANGED <<speakingActivity, energy>>
  ELSE UNCHANGED <<audioContextsRef, speakingTimersRef, speakLoops, speakingActivity, energy>>

\* ------------------------------------------------------------------- client

\* the kinds of track of a stream
Kinds == {"audio", "video"}

\* the tracks the first getUserMedia gave
FirstTracks == [k \in Kinds |-> 0]

\* new SimplePeer({stream}): the instance adds a sender for each track of the stream
\* and files it in its sender map under that track.  A PeerRef's senders give, per
\* kind, the tracks its one sender of that kind is filed under.
SenderMap(streamTracks) == [k \in Kinds |-> {streamTracks[k]}]

\* a PeerRef with its SimplePeer instance; muted and videoOff are undefined (<<>>)
\* until a peer-state-changed sets them (<<TRUE>> or <<FALSE>>); candidates counts
\* the remote candidates the instance was given
PeerRef(peerId, initiator, name, st) ==
  [peerId |-> peerId, initiator |-> initiator, userName |-> name,
   st |-> st, stream |-> FALSE, muted |-> <<>>, videoOff |-> <<>>, candidates |-> 0,
   senders |-> SenderMap(FirstTracks)]

HasPeer(c, id) == \E i \in 1..Len(peersRef[c]) : peersRef[c][i].peerId = id

\* peersRef.current.find((p) => p.peerId === id): the first match, 0 if none
FindPeer(c, id) ==
  IF HasPeer(c, id)
  THEN CHOOSE i \in 1..Len(peersRef[c]) :
         /\ peersRef[c][i].peerId = id
         /\ \A j \in 1..(i - 1) : peersRef[c][j].peerId # id
  ELSE 0

\* createPeer building a responder (a mutant of createPeer)
createPeerResponder(userToSignal, streamTracks, name) ==
  [PeerRef(userToSignal, FALSE, name, "New") EXCEPT !.senders = SenderMap(streamTracks)]

\* createPeer: new SimplePeer({initiator: true, ...})
createPeer(userToSignal, streamTracks, name) ==
  [PeerRef(userToSignal, TRUE, name, "New") EXCEPT !.senders = SenderMap(streamTracks)]

\* addPeer building an initiator (a mutant of addPeer)
addPeerInitiator(callerID, streamTracks, name) ==
  [PeerRef(callerID, TRUE, name, "New") EXCEPT !.senders = SenderMap(streamTracks)]

\* addPeer: new SimplePeer({initiator: false, ...}); peer.signal(incomingSignal)
addPeer(callerID, streamTracks, name) ==
  [PeerRef(callerID, FALSE, IF name = None THEN Participant ELSE name, "OfferApplied")
     EXCEPT !.senders = SenderMap(streamTracks)]

\* The page's mount effect after getUserMedia resolved: emit join-room with
\* socketRx.id, register the handlers.  io() connects in the background: socketRx.id
\* is the socket's id if "connect" came first and undefined if getUserMedia did, and
\* the packet emitted before "connect" is buffered and sent once connected.
Join(c, early) ==
  /\ cphase[c] = "idle"
  /\ cphase' = [cphase EXCEPT ![c] = "joined"]
  /\ early => nEarlyJoins < MaxEarlyJoins
  /\ nEarlyJoins' = IF early THEN nEarlyJoins + 1 ELSE nEarlyJoins
  /\ \E r \in RoomIds :
       toServer' = [toServer EXCEPT ![c] =
                      Append(@, Msg("join-room", r, IF early THEN NoId ELSE c, userName[c]))]
  /\ stream' = [stream EXCEPT ![c] = TRUE]
  /\ loops' = [loops EXCEPT ![c] =
                 RunMonitor(c, @, TRUE, muted[c], videoOff[c], restartingMode[c])]
  /\ UNCHANGED <<serverVars, toClient, userName, peersRef, nCandidates, nLeaves, boundVars,
                 mediaState, speakVars>>

\* the catch of the mount effect emitting join-room all the same (a mutant of
\* getUserMediaFails)
getUserMediaFailsJoins(c) ==
  /\ cphase[c] = "idle"
  /\ cphase' = [cphase EXCEPT ![c] = "denied"]
  /\ error' = [error EXCEPT ![c] = TRUE]
  /\ toServer' = [toServer EXCEPT ![c] = Append(@, Msg("join-room", "R", c, userName[c]))]
  /\ UNCHANGED <<serverVars, toClient, userName, peersRef, counters, boundVars,
                 speakVars>>
  /\ UNCHANGED <<stream, loops, muted, videoOff, restartingMode, tracks, audioEnded,
                 videoBad, micLevel, restarts, now, nToggles, nVideoEnds>>

\* The getUserMedia promise of the mount effect is rejected: the catch sets the error
\* state.  The then block, which emits join-room and registers the handlers, does
\* not run.
getUserMediaFails(c) ==
  /\ cphase[c] = "idle"
  /\ cphase' = [cphase EXCEPT ![c] = "denied"]
  /\ error' = [error EXCEPT ![c] = TRUE]
  /\ toServer' = toServer
  /\ UNCHANGED <<serverVars, toClient, userName, peersRef, counters, boundVars,
                 speakVars>>
  /\ UNCHANGED <<stream, loops, muted, videoOff, restartingMode, tracks, audioEnded,
                 videoBad, micLevel, restarts, now, nToggles, nVideoEnds>>

ClientHas(c, type) ==
  /\ cphase[c] = "joined"
  /\ toClient[c] # <<>>
  /\ Head(toClient[c]).type = type

Consume(c) == toClient' = [toClient EXCEPT ![c] = Tail(@)]

\* socketRx.on("user-connected")
OnUserConnected(c) ==
  /\ ClientHas(c, "user-connected")
  /\ Consume(c)
  /\ LET m == Head(toClient[c]) IN
     peersRef' = [peersRef EXCEPT ![c] =
                    IF HasPeer(c, m.id) THEN @ ELSE Append(@, createPeer(m.id, tracks[c], m.name))]
  /\ UNCHANGED <<serverVars, toServer, cphase, userName, counters, boundVars, mediaVars>>
  /\ SetPeers(c, ~HasPeer(c, Head(toClient[c]).id))

\* socketRx.on("user-disconnected")
OnUserDisconnected(c) ==
  /\ ClientHas(c, "user-disconnected")
  /\ Consume(c)
  /\ LET m == Head(toClient[c]) IN
     peersRef' = [peersRef EXCEPT ![c] = SelectSeq(@, LAMBDA p : p.peerId # m.id)]
  /\ UNCHANGED <<serverVars, toServer, cphase, userName, counters, boundVars, mediaVars>>
  /\ SetPeers(c, TRUE)

\* the offer handler without its duplicate check (a mutant of OnOffer)
OnOfferUnguarded(c) ==
  /\ ClientHas(c, "offer")
  /\ Consume(c)
  /\ LET m == Head(toClient[c]) IN
     peersRef' = [peersRef EXCEPT ![c] = Append(@, addPeer(m.id, tracks[c], m.name))]
  /\ UNCHANGED <<serverVars, toServer, cphase, userName, counters, boundVars, mediaVars>>
  /\ SetPeers(c, TRUE)

\* socketRx.on("offer")
OnOffer(c) ==
  /\ ClientHas(c, "offer")
  /\ Consume(c)
  /\ LET m == Head(toClient[c]) IN
     peersRef' = [peersRef EXCEPT ![c] =
                    IF HasPeer(c, m.id) THEN @ ELSE Append(@, addPeer(m.id, tracks[c], m.name))]
  /\ UNCHANGED <<serverVars, toServer, cphase, userName, counters, boundVars, mediaVars>>
  /\ SetPeers(c, ~HasPeer(c, Head(toClient[c]).id))

\* peer.signal(answer) on a SimplePeer instance: only a pending local offer accepts it
SignalAnswer(p) ==
  IF p.st \in {"Closed", "Failed"} THEN p
  ELSE IF p.initiator /\ p.st = "AwaitingAnswer" THEN [p EXCEPT !.st = "AnswerApplied"]
  ELSE [p EXCEPT !.st = "Failed"]

\* a mutant of OnAnswer: the name of the answer replaces whatever name the PeerRef has
OnAnswerOverwrite(c) ==
  /\ ClientHas(c, "answer")
  /\ Consume(c)
  /\ LET m == Head(toClient[c])
         i == FindPeer(c, m.id)
     IN  peersRef' = [peersRef EXCEPT ![c] =
                        IF i = 0 THEN @
                        ELSE [@ EXCEPT ![i] =
                                [SignalAnswer(@) EXCEPT !.userName =
                                   IF m.name # None THEN m.name ELSE @]]]
  /\ UNCHANGED <<serverVars, toServer, cphase, userName, counters, boundVars, mediaVars>>
  /\ LET m == Head(toClient[c])
         i == FindPeer(c, m.id)
     IN  SetPeers(c, i # 0 /\ m.name # None)

\* socketRx.on("answer")
OnAnswer(c) ==
  /\ ClientHas(c, "answer")
  /\ Consume(c)
  /\ LET m == Head(toClient[c])
         i == FindPeer(c, m.id)
     IN  peersRef' = [peersRef EXCEPT ![c] =
                        IF i = 0 THEN @
                        ELSE [@ EXCEPT ![i] =
                                [SignalAnswer(@) EXCEPT !.userName =
                                   IF @ = Participant /\ m.name # None THEN m.name ELSE @]]]
  /\ UNCHANGED <<serverVars, toServer, cphase, userName, counters, boundVars, mediaVars>>
  /\ LET m == Head(toClient[c])
         i == FindPeer(c, m.id)
     IN  SetPeers(c, i # 0 /\ m.name # None /\ peersRef[c][i].userName = Participant)

\* peer.signal(candidate) on a SimplePeer instance: a candidate is taken in any state
\* of the negotiation, and by no instance that is destroyed
SignalCandidate(p) ==
  IF p.st \in {"Closed", "Failed"} THEN p
  ELSE [p EXCEPT !.candidates = @ + 1]

\* a mutant of OnIceCandidate: a candidate from an unknown id gets a PeerRef
OnIceCandidateCreating(c) ==
  /\ ClientHas(c, "ice-candidate")
  /\ Consume(c)
  /\ LET m == Head(toClient[c])
         i == FindPeer(c, m.id)
     IN  peersRef' = [peersRef EXCEPT ![c] =
                        IF i = 0 THEN Append(@, addPeer(m.id, tracks[c], None))
                        ELSE [@ EXCEPT ![i] = SignalCandidate(@)]]
  /\ UNCHANGED <<serverVars, toServer, cphase, userName, counters, boundVars, mediaVars, speakVars>>

\* socketRx.on("ice-candidate")
OnIceCandidate(c) ==
  /\ ClientHas(c, "ice-candidate")
  /\ Consume(c)
  /\ LET m == Head(toClient[c])
         i == FindPeer(c, m.id)
     IN  peersRef' = [peersRef EXCEPT ![c] =
                        IF i = 0 THEN @ ELSE [@ EXCEPT ![i] = SignalCandidate(@)]]
  /\ UNCHANGED <<serverVars, toServer, cphase, userName, counters, boundVars, mediaVars, speakVars>>

\* The page unmounts.  The cleanup of the mount effect: socketRx.disconnect(), every
\* peer destroyed; the cleanups of the monitor effect and of the tracker effect.
Cleanup(c) ==
  /\ cphase' = [cphase EXCEPT ![c] = "gone"]
  /\ toServer' = [toServer EXCEPT ![c] = Append(@, Msg("disconnect", None, None, None))]
  /\ peersRef' = [peersRef EXCEPT ![c] =
                    [i \in 1..Len(@) |-> [@[i] EXCEPT !.st = "Closed"]]]
  /\ loops' = [loops EXCEPT ![c] = MonitorCleanup(@, Heard(c))]
  /\ audioContextsRef' = [audioContextsRef EXCEPT ![c] = {}]
  /\ speakingTimersRef' = [speakingTimersRef EXCEPT ![c] = [x \in DOMAIN @ |-> NoTimer]]
  /\ speakLoops' = [speakLoops EXCEPT ![c] = SpeakerCleanup(@)]
  /\ UNCHANGED <<stream, mediaState, speakingActivity, energy>>

\* socketRx.on("error"): alert, router.push("/")
OnError(c) ==
  /\ ClientHas(c, "error")
  /\ Consume(c)
  /\ Cleanup(c)
  /\ UNCHANGED <<serverVars, userName, counters, boundVars>>

\* leaveRoom: router.push("/")
leaveRoom(c) ==
  /\ cphase[c] = "joined"
  /\ nLeaves < MaxLeaves
  /\ nLeaves' = nLeaves + 1
  /\ Cleanup(c)
  /\ UNCHANGED <<serverVars, toClient, userName, nCandidates, nEarlyJoins, boundVars>>

\* peer.on("signal") with an SDP: createPeer emits "offer", addPeer emits "answer"
PeerSignalSdp(c, i) ==
  /\ cphase[c] = "joined"
  /\ i \in 1..Len(peersRef[c])
  /\ LET p == peersRef[c][i] IN
     /\ p.st = IF p.initiator THEN "New" ELSE "OfferApplied"
     /\ peersRef' = [peersRef EXCEPT ![c][i].st =
                       IF p.initiator THEN "AwaitingAnswer" ELSE "AnswerCreated"]
     /\ toServer' = [toServer EXCEPT ![c] =
                       Append(@, Msg(IF p.initiator THEN "offer" ELSE "answer",
                                     None, p.peerId, None))]
  /\ UNCHANGED <<serverVars, toClient, cphase, userName, counters, boundVars, mediaVars, speakVars>>

\* peer.on("signal") with a candidate
PeerSignalCandidate(c, i) ==
  /\ cphase[c] = "joined"
  /\ i \in 1..Len(peersRef[c])
  /\ LET p == peersRef[c][i] IN
     /\ p.st \in {"AwaitingAnswer", "AnswerApplied", "AnswerCreated", "Connected"}
     /\ nCandidates < MaxCandidates
     /\ nCandidates' = nCandidates + 1
     /\ toServer' = [toServer EXCEPT ![c] =
                       Append(@, Msg("ice-candidate", None, p.peerId, None))]
  /\ UNCHANGED <<serverVars, toClient, cphase, userName, peersRef, nLeaves, nEarlyJoins, boundVars, mediaVars, speakVars>>

Negotiated == {"AnswerApplied", "AnswerCreated", "Connected"}

\* the transport connects once both ends hold both descriptions
PeerConnect(c, i) ==
  /\ cphase[c] = "joined"
  /\ i \in 1..Len(peersRef[c])
  /\ LET p == peersRef[c][i] IN
     /\ p.st \in {"AnswerApplied", "AnswerCreated"}
     /\ p.peerId \in Clients
     /\ cphase[p.peerId] = "joined"
     /\ \E j \in 1..Len(peersRef[p.peerId]) :
          /\ peersRef[p.peerId][j].peerId = c
          /\ peersRef[p.peerId][j].st \in Negotiated
     /\ peersRef' = [peersRef EXCEPT ![c][i].st = "Connected"]
  /\ UNCHANGED <<serverVars, toServer, toClient, cphase, userName, counters, boundVars, mediaVars, speakVars>>

\* a mutant of PeerError: the handler sets the page's error state
PeerErrorFatal(c, i) ==
  /\ cphase[c] = "joined"
  /\ i \in 1..Len(peersRef[c])
  /\ peersRef[c][i].st \notin {"Closed", "Failed"}
  /\ peersRef' = [peersRef EXCEPT ![c][i].st = "Failed"]
  /\ error' = [error EXCEPT ![c] = TRUE]
  /\ UNCHANGED <<serverVars, toServer, toClient, cphase, userName, counters, boundVars,
                 stream, loops, muted, videoOff, restartingMode, tracks, audioEnded, videoBad,
                 micLevel, restarts, now, nToggles, nVideoEnds, speakVars>>

\* peer.on("error"): the transport of the SimplePeer instance fails and the instance
\* destroys itself; the handler logs
PeerError(c, i) ==
  /\ cphase[c] = "joined"
  /\ i \in 1..Len(peersRef[c])
  /\ peersRef[c][i].st \notin {"Closed", "Failed"}
  /\ peersRef' = [peersRef EXCEPT ![c][i].st = "Failed"]
  /\ UNCHANGED <<serverVars, toServer, toClient, cphase, userName, counters, boundVars,
                 mediaVars, speakVars>>

\* -------------------------------------------------------------------- system

\* the state after construction, with the peer lists prs and the stamps act
InitFrom(members, prs, act) ==
  /\ connected = members
  /\ rooms = [s \in Clients |-> {}]
  /\ userNames = [s \in Clients |-> None]
  /\ hooks = [s \in Clients |-> <<>>]
  /\ toServer = [s \in Clients |-> <<>>]
  /\ toClient = [s \in Clients |-> <<>>]
  /\ cphase = [c \in Clients |-> "idle"]
  /\ userName \in {f \in [Clients -> Names] : \A c \in Clients : f[c] \in NameChoices(c)}
  /\ peersRef = prs
  /\ nCandidates = 0
  /\ nLeaves = 0
  /\ nEarlyJoins = 0
  /\ nInjected = 0
  /\ nSent = 0
  /\ lastDup = [type |-> None, id |-> None]
  /\ joinOrder = <<>>
  /\ stream = [c \in Clients |-> FALSE]
  /\ muted = [c \in Clients |-> FALSE]
  /\ videoOff = [c \in Clients |-> FALSE]
  /\ restartingMode = [c \in Clients |-> None]
  /\ error = [c \in Clients |-> FALSE]
  /\ loops = [c \in Clients |-> <<>>]
  /\ restarts = [c \in Clients |-> <<>>]
  /\ tracks = [c \in Clients |-> FirstTracks]
  /\ audioEnded = [c \in Clients |-> FALSE]
  /\ videoBad = [c \in Clients |-> FALSE]
  /\ micLevel = [c \in Clients |-> SILENCE_THRESHOLD]
  /\ now = 0
  /\ nToggles = 0
  /\ nVideoEnds = 0
  /\ quietSince = 0
  /\ lastAudioStart = -1
  /\ lastRestartDone = -1
  /\ lastFailed = None
  /\ audioContextsRef = [c \in Clients |-> {}]
  /\ speakingTimersRef = [c \in Clients |-> [x \in Clients \cup {NoId} |-> NoTimer]]
  /\ speakingActivity = act
  /\ speakLoops = [c \in Clients |-> <<>>]
  /\ energy = [x \in Clients |-> [level |-> SPEAKING_THRESHOLD, since |-> -1, before |-> -1]]
  /\ rendered = [c \in Clients |-> <<>>]

\* no PeerRef and no stamp
InitWith(members) ==
  InitFrom(members, [c \in Clients |-> <<>>],
           [c \in Clients |-> [x \in Clients \cup {NoId} |-> -1]])

Init == InitWith(Clients)

Server ==
  \/ \E s \in Clients : ServerJoinRoom(s)
  \/ \E s \in Clients : ServerDisconnect(s)
  \/ \E s \in Clients : ServerOffer(s)
  \/ \E s \in Clients : ServerAnswer(s)
  \/ \E s \in Clients : ServerIceCandidate(s)

Page(c) ==
  \/ \E early \in BOOLEAN : Join(c, early)
  \/ OnError(c)
  \/ OnUserConnected(c)
  \/ OnUserDisconnected(c)
  \/ OnOffer(c)
  \/ OnAnswer(c)
  \/ leaveRoom(c)
  \/ \E i \in 1..Len(peersRef[c]) : PeerSignalSdp(c, i)
  \/ \E i \in 1..Len(peersRef[c]) : PeerConnect(c, i)

\* The closed system: the relay and three pages.  Trickled candidates change no
\* state of either end in this model and are left to SpecPage and SpecRelay.
\* the relay takes a step: an accepted join-room is noted in joinOrder
Accepted ==
  joinOrder' = joinOrder \o
    [i \in 1..Cardinality({s \in Clients : Len(hooks'[s]) > Len(hooks[s])}) |->
       CHOOSE s \in Clients : Len(hooks'[s]) > Len(hooks[s])]

Next ==
  \/ Server /\ Accepted /\ UNCHANGED <<lastDup, mediaHistory, screen>>
  \/ \E c \in Clients : Page(c) /\ UNCHANGED history

Spec == Init /\ [][Next]_vars

\* ------------------------------------------------------- one page, any relay

\* the page under test
Me == "s1"

\* What a relay can deliver to a joined page: user-connected and user-disconnected
\* carry the userId a socket chose for its join-room, offer, answer and ice-candidate
\* the sender's socket id and the name the relay looked up.
Inbound ==
  {Msg(t, None, id, n) : t \in {"user-connected", "offer", "answer"},
                         id \in Clients \ {Me}, n \in {"bob", Participant}}
    \cup {Msg(t, None, id, None) : t \in {"user-disconnected", "ice-candidate"},
                                  id \in Clients \ {Me}}

\* One packet at a time, once the wire took what the page emitted: the page handles
\* its packets in the order delivered and never reads what it emitted.
Inject(m) ==
  /\ cphase[Me] = "joined"
  /\ toClient[Me] = <<>>
  /\ toServer[Me] = <<>>
  /\ nInjected < MaxInjected
  /\ nInjected' = nInjected + 1
  /\ toClient' = [toClient EXCEPT ![Me] = Append(@, m)]
  /\ UNCHANGED <<serverVars, toServer, cphase, userName, peersRef, counters, nSent, mediaVars, speakVars, history>>

\* the page handles the user-connected or offer at the head of its queue
Rx(c) ==
  LET m == Head(toClient[c])
  IN  /\ lastDup' = IF HasPeer(c, m.id) THEN [type |-> m.type, id |-> m.id] ELSE lastDup
      /\ UNCHANGED <<joinOrder, mediaHistory, screen>>

InitPage == InitWith({Me})

NextPage ==
  \/ Server /\ UNCHANGED history
  \/ Join(Me, FALSE) /\ UNCHANGED history
  \/ OnUserConnected(Me) /\ Rx(Me)
  \/ OnUserDisconnected(Me) /\ UNCHANGED history
  \/ OnOffer(Me) /\ Rx(Me)
  \/ OnAnswer(Me) /\ UNCHANGED history
  \/ OnIceCandidate(Me) /\ UNCHANGED history
  \/ leaveRoom(Me) /\ UNCHANGED history
  \/ \E i \in 1..Len(peersRef[Me]) : PeerSignalSdp(Me, i) /\ UNCHANGED history
  \/ \E i \in 1..Len(peersRef[Me]) : PeerSignalCandidate(Me, i) /\ UNCHANGED history
  \/ \E m \in Inbound : Inject(m)

SpecPage == InitPage /\ [][NextPage]_vars

\* ----------------------------------------------------- the relay, any socket

\* join-room takes any roomId: the call's room, or a name that is also a socket's id
AnyRooms == {"R", "s2"}

\* What a socket can send: the relay checks nothing but the name of a join-room.
\* An offer or answer may carry from and userName fields of the sender's choosing.
Forged(t, to, from, name) ==
  [type |-> t, room |-> None, id |-> to, name |-> name, from |-> from]

Outbound(s) ==
  {Msg("join-room", r, id, n) : r \in AnyRooms, id \in {s, NoId}, n \in {"alice", "eve"}}
    \cup {Forged(t, to, to, "eve") : t \in {"offer", "answer"}, to \in Clients \ {s}}
    \cup {Msg("ice-candidate", None, to, None) : to \in Clients \ {s}}
    \cup {Msg("disconnect", None, None, None)}

\* One packet at a time: the relay handles the packets of all sockets one after
\* another, in the order they reach it.
Send(s, m) ==
  /\ s \in connected
  /\ nSent < MaxSent
  /\ nSent' = nSent + 1
  /\ \A t \in Clients : toServer[t] = <<>>
  /\ toServer' = [toServer EXCEPT ![s] = Append(@, m)]
  /\ UNCHANGED <<serverVars, toClient, cphase, userName, peersRef, counters, nInjected, mediaVars, speakVars, history>>

NextRelay ==
  \/ Server /\ UNCHANGED history
  \/ \E s \in Clients : \E m \in Outbound(s) : Send(s, m)

SpecRelay == Init /\ [][NextRelay]_vars

\* ----------------------------------------------------- the monitor's steps

PeerStateMsg(room, id, m, v) ==
  [type |-> "peer-state-changed", room |-> room, id |-> id, name |-> None,
   muted |-> m, videoOff |-> v]

\* socket.on("peer-state-changed")
ServerPeerStateChanged(s) ==
  /\ ServerHas(s, "peer-state-changed")
  /\ LET m == Head(toServer[s])
     IN  toClient' = Emit(toClient, SocketTo(rooms, s, m.room),
                          PeerStateMsg(None, m.id, m.muted, m.videoOff))
  /\ toServer' = [toServer EXCEPT ![s] = Tail(@)]
  /\ UNCHANGED <<serverVars, cphase, userName, peersRef, counters, boundVars, mediaVars, speakVars>>

toggleMute(c) ==
  /\ cphase[c] = "joined"
  /\ stream[c]
  /\ nToggles < MaxToggles
  /\ nToggles' = nToggles + 1
  /\ muted' = [muted EXCEPT ![c] = ~@]
  /\ toServer' = [toServer EXCEPT ![c] =
                    Append(@, PeerStateMsg("R", c, ~muted[c], videoOff[c]))]
  /\ loops' = [loops EXCEPT ![c] =
                 RunMonitor(c, @, stream[c], ~muted[c], videoOff[c], restartingMode[c])]
  /\ UNCHANGED <<serverVars, toClient, cphase, userName, peersRef, counters, boundVars, speakVars>>
  /\ UNCHANGED <<stream, videoOff, restartingMode, tracks, audioEnded, videoBad, micLevel,
                 restarts, error, now, nVideoEnds>>

toggleVideo(c) ==
  /\ cphase[c] = "joined"
  /\ stream[c]
  /\ nToggles < MaxToggles
  /\ nToggles' = nToggles + 1
  /\ videoOff' = [videoOff EXCEPT ![c] = ~@]
  /\ toServer' = [toServer EXCEPT ![c] =
                    Append(@, PeerStateMsg("R", c, muted[c], ~videoOff[c]))]
  /\ loops' = [loops EXCEPT ![c] =
                 RunMonitor(c, @, stream[c], muted[c], ~videoOff[c], restartingMode[c])]
  /\ UNCHANGED <<serverVars, toClient, cphase, userName, peersRef, counters, boundVars, speakVars>>
  /\ UNCHANGED <<stream, muted, restartingMode, tracks, audioEnded, videoBad, micLevel,
                 restarts, error, now, nVideoEnds>>

\* restartMedia(type) up to its await, called by a loop that read restartingMode as
\* rm when it started; ls are the loops left once the caller has returned.  The
\* render that follows setRestartingMode(type) runs the monitor effect.
restartMedia(c, rm, type, ls) ==
  IF rm # None \/ ~stream[c]
  THEN /\ loops' = [loops EXCEPT ![c] = ls]
       /\ UNCHANGED <<restartingMode, audioEnded, videoBad, restarts>>
  ELSE /\ restartingMode' = [restartingMode EXCEPT ![c] = type]
       /\ audioEnded' = [audioEnded EXCEPT ![c] = @ \/ type = "audio"]
       /\ videoBad' = [videoBad EXCEPT ![c] = @ \/ type = "video"]
       /\ restarts' = [restarts EXCEPT ![c] =
                         Append(@, [type |-> type, phase |-> "acquiring",
                                    old |-> tracks[c][type]])]
       /\ loops' = [loops EXCEPT ![c] =
                      IF restartingMode[c] # type
                      THEN RunMonitor(c, ls, stream[c], muted[c], videoOff[c], type)
                      ELSE ls]

\* one frame of the loop i
checkMediaHealth(c, i) ==
  LET l == loops[c][i]
      average == IF l.frozen >= 0 THEN l.frozen ELSE Heard(c)
      silent == ~l.muted /\ average < SILENCE_THRESHOLD
      audio == silent /\ (now - l.silenceStart) * TickMs > SILENCE_DURATION
      video == ~l.videoOff /\ videoBad[c]
      rest == RemoveAt(loops[c], i)
  IN  /\ cphase[c] # "idle"
      /\ ~l.checked
      /\ IF l.restartingMode # None
         THEN /\ loops' = [loops EXCEPT ![c] = rest]
              /\ UNCHANGED <<restartingMode, audioEnded, videoBad, restarts>>
         ELSE IF audio THEN restartMedia(c, l.restartingMode, "audio", rest)
         ELSE IF video THEN restartMedia(c, l.restartingMode, "video", rest)
         ELSE /\ loops' = [loops EXCEPT ![c][i] =
                             [l EXCEPT !.first = FALSE, !.checked = TRUE,
                                       !.silenceStart =
                                          IF ~l.muted /\ ~silent THEN now ELSE @]]
              /\ UNCHANGED <<restartingMode, audioEnded, videoBad, restarts>>
      /\ UNCHANGED <<serverVars, toServer, toClient, cphase, userName, peersRef,
                     counters, boundVars, speakVars>>
      /\ UNCHANGED <<stream, muted, videoOff, tracks, micLevel, error, now, nToggles, nVideoEnds>>

\* finally: setRestartingMode(null), and the render that follows
RestartFinally(c, j) ==
  /\ restarts' = [restarts EXCEPT ![c] = RemoveAt(@, j)]
  /\ restartingMode' = [restartingMode EXCEPT ![c] = None]
  /\ loops' = [loops EXCEPT ![c] =
                 IF restartingMode[c] # None
                 THEN RunMonitor(c, @, stream[c], muted[c], videoOff[c], None)
                 ELSE @]

\* replaceTrack on the connected instances only (a mutant of replaceTrack)
replaceTrackConnected(p, kind, oldTrack, newTrack) ==
  IF p.st # "Connected" \/ oldTrack \notin p.senders[kind]
  THEN p
  ELSE [p EXCEPT !.senders[kind] = @ \cup {newTrack}]

\* peer.replaceTrack(oldTrack, newTrack, currentStream) inside the try of the map
\* callback (lines 503-520): a destroyed instance is skipped; an instance whose
\* sender map has no entry for oldTrack throws, which the catch logs; otherwise the
\* sender sends newTrack and is filed under it too
replaceTrack(p, kind, oldTrack, newTrack) ==
  IF p.st \in {"Closed", "Failed"} \/ oldTrack \notin p.senders[kind]
  THEN p
  ELSE [p EXCEPT !.senders[kind] = @ \cup {newTrack}]

\* peersRef.current.map(...) of lines 502-521
ReplaceAll(pr, kind, oldTrack, newTrack) ==
  [i \in 1..Len(pr) |-> replaceTrack(pr[i], kind, oldTrack, newTrack)]

\* a mutant of RestartAcquired: the catch block sets the error for either type
RestartAcquiredAnyError(c, j, ok) ==
  /\ j \in 1..Len(restarts[c])
  /\ restarts[c][j].phase = "acquiring"
  /\ IF ok
     THEN /\ restarts' = [restarts EXCEPT ![c][j].phase = "replacing"]
          /\ audioEnded' = [audioEnded EXCEPT ![c] = @ /\ restarts[c][j].type # "audio"]
          /\ videoBad' = [videoBad EXCEPT ![c] = @ /\ restarts[c][j].type # "video"]
          /\ tracks' = [tracks EXCEPT ![c][restarts[c][j].type] = @ + 1]
          /\ peersRef' = [peersRef EXCEPT ![c] =
                            ReplaceAll(@, restarts[c][j].type, restarts[c][j].old,
                                       tracks[c][restarts[c][j].type] + 1)]
          /\ UNCHANGED <<restartingMode, loops, error>>
     ELSE /\ error' = [error EXCEPT ![c] = TRUE]
          /\ RestartFinally(c, j)
          /\ UNCHANGED <<tracks, audioEnded, videoBad, peersRef>>
  /\ UNCHANGED <<serverVars, toServer, toClient, cphase, userName,
                 counters, boundVars, speakVars>>
  /\ UNCHANGED <<stream, muted, videoOff, micLevel, now, nToggles, nVideoEnds>>

\* getUserMedia of the restart j settles: the new track takes the old one's place in
\* the stream, or the catch block runs
RestartAcquired(c, j, ok) ==
  /\ j \in 1..Len(restarts[c])
  /\ restarts[c][j].phase = "acquiring"
  /\ IF ok
     THEN /\ restarts' = [restarts EXCEPT ![c][j].phase = "replacing"]
          /\ audioEnded' = [audioEnded EXCEPT ![c] = @ /\ restarts[c][j].type # "audio"]
          /\ videoBad' = [videoBad EXCEPT ![c] = @ /\ restarts[c][j].type # "video"]
          /\ tracks' = [tracks EXCEPT ![c][restarts[c][j].type] = @ + 1]
          /\ peersRef' = [peersRef EXCEPT ![c] =
                            ReplaceAll(@, restarts[c][j].type, restarts[c][j].old,
                                       tracks[c][restarts[c][j].type] + 1)]
          /\ UNCHANGED <<restartingMode, loops, error>>
     ELSE /\ error' = [error EXCEPT ![c] = @ \/ restarts[c][j].type = "audio"]
          /\ RestartFinally(c, j)
          /\ UNCHANGED <<tracks, audioEnded, videoBad, peersRef>>
  /\ UNCHANGED <<serverVars, toServer, toClient, cphase, userName,
                 counters, boundVars, speakVars>>
  /\ UNCHANGED <<stream, muted, videoOff, micLevel, now, nToggles, nVideoEnds>>

\* Promise.all of the replaceTrack calls settles
RestartReplaced(c, j) ==
  /\ j \in 1..Len(restarts[c])
  /\ restarts[c][j].phase = "replacing"
  /\ RestartFinally(c, j)
  /\ UNCHANGED <<serverVars, toServer, toClient, cphase, userName, peersRef,
                 counters, boundVars, speakVars>>
  /\ UNCHANGED <<stream, muted, videoOff, tracks, audioEnded, videoBad, micLevel, error,
                 now, nToggles, nVideoEnds>>

\* ------------------------------------------------------ the tracker's steps

\* a mutant of the handler: the state is written to every PeerRef of the page
OnPeerStateChangedAll(c) ==
  /\ ClientHas(c, "peer-state-changed")
  /\ Consume(c)
  /\ LET m == Head(toClient[c])
         i == FindPeer(c, m.id)
     IN  /\ peersRef' = [peersRef EXCEPT ![c] =
                           [j \in 1..Len(@) |-> [@[j] EXCEPT !.muted = <<m.muted>>,
                                                             !.videoOff = <<m.videoOff>>]]]
         /\ SetPeers(c, i # 0)
  /\ UNCHANGED <<serverVars, toServer, cphase, userName, counters, boundVars, mediaVars>>

\* socketRx.on("peer-state-changed")
OnPeerStateChanged(c) ==
  /\ ClientHas(c, "peer-state-changed")
  /\ Consume(c)
  /\ LET m == Head(toClient[c])
         i == FindPeer(c, m.id)
     IN  /\ peersRef' = [peersRef EXCEPT ![c] =
                           IF i = 0 THEN @
                           ELSE [@ EXCEPT ![i] = [@ EXCEPT !.muted = <<m.muted>>,
                                                           !.videoOff = <<m.videoOff>>]]]
         /\ SetPeers(c, i # 0)
  /\ UNCHANGED <<serverVars, toServer, cphase, userName, counters, boundVars, mediaVars>>

\* peer.on("stream"): the remote stream arrives once the remote description is set
PeerStream(c, i) ==
  /\ cphase[c] = "joined"
  /\ i \in 1..Len(peersRef[c])
  /\ LET p == peersRef[c][i] IN
     /\ p.st \in {"OfferApplied", "AnswerCreated", "AnswerApplied", "Connected"}
     /\ p.peerId \in Clients
     /\ ~p.stream
     /\ peersRef' = [peersRef EXCEPT ![c][i].stream = TRUE]
     /\ audioContextsRef' = [audioContextsRef EXCEPT ![c] = WithStream(peersRef'[c])]
     /\ speakingTimersRef' = [speakingTimersRef EXCEPT ![c] = SpeakerTimers(peersRef'[c])]
     /\ speakLoops' = [speakLoops EXCEPT ![c] =
                         SpeakerCleanup(@) \o SpeakerStarted(peersRef'[c])]
  /\ UNCHANGED <<speakingActivity, energy>>
  /\ UNCHANGED <<serverVars, toServer, toClient, cphase, userName, counters, boundVars,
                 mediaVars>>

\* a frame that leaves the timer alone when the level is low (a mutant of
\* checkAudioLevel)
checkAudioLevelNoCancel(c, i) ==
  LET l == speakLoops[c][i]
      average == IF l.frozen >= 0 THEN l.frozen ELSE energy[l.peerId].level
  IN  /\ cphase[c] # "idle"
      /\ ~l.checked
      /\ \A j \in 1..(i - 1) : speakLoops[c][j].checked
      /\ IF l.peerId \notin audioContextsRef[c]
         THEN /\ speakLoops' = [speakLoops EXCEPT ![c] = RemoveAt(@, i)]
              /\ UNCHANGED speakingTimersRef
         ELSE /\ speakLoops' = [speakLoops EXCEPT ![c][i].checked = TRUE]
              /\ speakingTimersRef' = [speakingTimersRef EXCEPT ![c][l.peerId] =
                    IF average > SPEAKING_THRESHOLD
                    THEN (IF @ = NoTimer THEN [start |-> now, fired |-> FALSE] ELSE @)
                    ELSE @]
      /\ UNCHANGED <<audioContextsRef, speakingActivity, energy>>
      /\ UNCHANGED <<serverVars, toServer, toClient, cphase, userName, peersRef,
                     counters, boundVars, mediaVars>>

\* One frame of the tracker's loop i.  The callbacks of a frame run in the order
\* they were requested, which is the order the loops were started in.
checkAudioLevel(c, i) ==
  LET l == speakLoops[c][i]
      average == IF l.frozen >= 0 THEN l.frozen ELSE energy[l.peerId].level
  IN  /\ cphase[c] # "idle"
      /\ ~l.checked
      /\ \A j \in 1..(i - 1) : speakLoops[c][j].checked
      /\ IF l.peerId \notin audioContextsRef[c]
         THEN /\ speakLoops' = [speakLoops EXCEPT ![c] = RemoveAt(@, i)]
              /\ UNCHANGED speakingTimersRef
         ELSE /\ speakLoops' = [speakLoops EXCEPT ![c][i].checked = TRUE]
              /\ speakingTimersRef' = [speakingTimersRef EXCEPT ![c][l.peerId] =
                    IF average > SPEAKING_THRESHOLD
                    THEN (IF @ = NoTimer THEN [start |-> now, fired |-> FALSE] ELSE @)
                    ELSE NoTimer]
      /\ UNCHANGED <<audioContextsRef, speakingActivity, energy>>
      /\ UNCHANGED <<serverVars, toServer, toClient, cphase, userName, peersRef,
                     counters, boundVars, mediaVars>>

\* the timer of peerId x has run SPEAKING_DURATION_TO_REORDER
Due(t) ==
  t # NoTimer /\ ~t.fired /\ (now - t.start) * SpeakTickMs >= SPEAKING_DURATION_TO_REORDER

\* the timer's callback deleting its entry of the map (a mutant of TimerFires)
TimerFiresDelete(c, x) ==
  /\ Due(speakingTimersRef[c][x])
  /\ speakingActivity' = [speakingActivity EXCEPT ![c][x] = now]
  /\ speakingTimersRef' = [speakingTimersRef EXCEPT ![c][x] = NoTimer]
  /\ UNCHANGED <<audioContextsRef, speakLoops, energy>>
  /\ UNCHANGED <<serverVars, toServer, toClient, cphase, userName, peersRef,
                 counters, boundVars, mediaVars>>

\* the timer's callback: setSpeakingActivity; the entry stays in the map
TimerFires(c, x) ==
  /\ Due(speakingTimersRef[c][x])
  /\ speakingActivity' = [speakingActivity EXCEPT ![c][x] = now]
  /\ speakingTimersRef' = [speakingTimersRef EXCEPT ![c][x].fired = TRUE]
  /\ UNCHANGED <<audioContextsRef, speakLoops, energy>>
  /\ UNCHANGED <<serverVars, toServer, toClient, cphase, userName, peersRef,
                 counters, boundVars, mediaVars>>

\* The remote party x raises or lowers its voice, at most once in an instant and
\* before the frames of the instant.
SpeakChange(c, x, lvl) ==
  /\ x \in WithStream(peersRef[c])
  /\ lvl # energy[x].level
  /\ energy[x].since # now
  /\ \A i \in 1..Len(speakLoops[c]) :
       speakLoops[c][i].peerId = x /\ speakLoops[c][i].frozen = -1 =>
         ~speakLoops[c][i].checked
  /\ energy' = [energy EXCEPT ![x] = [level |-> lvl, since |-> now, before |-> @.since]]
  /\ UNCHANGED <<audioContextsRef, speakingTimersRef, speakLoops, speakingActivity>>
  /\ UNCHANGED <<serverVars, toServer, toClient, cphase, userName, peersRef,
                 counters, boundVars, mediaVars>>

\* the room gets loud or silent
MicChange(c, lvl) ==
  /\ stream[c]
  /\ lvl # micLevel[c]
  /\ micLevel' = [micLevel EXCEPT ![c] = lvl]
  /\ UNCHANGED <<serverVars, toServer, toClient, cphase, userName, peersRef,
                 counters, boundVars, speakVars>>
  /\ UNCHANGED <<stream, loops, muted, videoOff, restartingMode, tracks, audioEnded, videoBad,
                 restarts, error, now, nToggles, nVideoEnds>>

\* the camera's track ends, or the device mutes it
VideoTrackEnds(c) ==
  /\ stream[c]
  /\ ~videoBad[c]
  /\ nVideoEnds < MaxVideoEnds
  /\ nVideoEnds' = nVideoEnds + 1
  /\ videoBad' = [videoBad EXCEPT ![c] = TRUE]
  /\ UNCHANGED <<serverVars, toServer, toClient, cphase, userName, peersRef,
                 counters, boundVars, speakVars>>
  /\ UNCHANGED <<stream, loops, muted, videoOff, restartingMode, tracks, audioEnded, micLevel,
                 restarts, error, now, nToggles>>

\* Time passes once every loop has run its frame and every timer that is due has
\* run: frames are far more frequent than the clock's instants.
Tick ==
  /\ now < MaxTick
  /\ \A c \in Clients : \A i \in 1..Len(loops[c]) : loops[c][i].checked
  /\ \A c \in Clients : \A i \in 1..Len(speakLoops[c]) : speakLoops[c][i].checked
  /\ \A c \in Clients : \A x \in DOMAIN speakingTimersRef[c] : ~Due(speakingTimersRef[c][x])
  /\ now' = now + 1
  /\ loops' = [c \in Clients |->
                 [i \in 1..Len(loops[c]) |-> [loops[c][i] EXCEPT !.checked = FALSE]]]
  /\ speakLoops' = [c \in Clients |->
                      [i \in 1..Len(speakLoops[c]) |->
                         [speakLoops[c][i] EXCEPT !.checked = FALSE]]]
  /\ UNCHANGED <<serverVars, toServer, toClient, cphase, userName, peersRef,
                 counters, boundVars>>
  /\ UNCHANGED <<stream, muted, videoOff, restartingMode, tracks, audioEnded, videoBad,
                 micLevel, restarts, error, nToggles, nVideoEnds>>
  /\ UNCHANGED <<audioContextsRef, speakingTimersRef, speakingActivity, energy>>

\* --------------------------------------------- one page and its media monitor

\* a step of the page's media: quietSince is the instant of the last one
MediaEvent ==
  <<stream, muted, videoOff, restartingMode, audioEnded, videoBad, micLevel, restarts>>' #
  <<stream, muted, videoOff, restartingMode, audioEnded, videoBad, micLevel, restarts>>

\* a restartMedia call ran its finally block in this step
RestartEnds(c) == Len(restarts'[c]) < Len(restarts[c])

\* restartMedia("audio") got past its guard in this step
AudioRestartStarts(c) ==
  /\ Len(restarts'[c]) > Len(restarts[c])
  /\ restarts'[c][Len(restarts'[c])].type = "audio"

\* the restartMedia calls of page c whose catch block ran in this step
Rejected(c) ==
  {j \in 1..Len(restarts[c]) :
     restarts[c][j].phase = "acquiring" /\ restarts'[c] = RemoveAt(restarts[c], j)}

\* restartMedia(type) got past its guard in this step
RestartStarts(c, type) ==
  /\ Len(restarts'[c]) > Len(restarts[c])
  /\ restarts'[c][Len(restarts'[c])].type = type

Observed ==
  /\ quietSince' = IF MediaEvent THEN now ELSE quietSince
  /\ lastFailed' = IF Rejected(Me) # {}
                   THEN restarts[Me][CHOOSE j \in Rejected(Me) : TRUE].type
                   ELSE IF MediaEvent \/ now' # now THEN None ELSE lastFailed
  /\ lastAudioStart' = IF AudioRestartStarts(Me) THEN now ELSE lastAudioStart
  /\ lastRestartDone' = IF RestartEnds(Me) THEN now ELSE lastRestartDone
  /\ UNCHANGED <<meshHistory, screen>>

NextMedia ==
  \/ Join(Me, FALSE) /\ Observed
  \/ ServerJoinRoom(Me) /\ Observed
  \/ ServerPeerStateChanged(Me) /\ Observed
  \/ toggleMute(Me) /\ Observed
  \/ toggleVideo(Me) /\ Observed
  \/ \E i \in 1..Len(loops[Me]) : checkMediaHealth(Me, i) /\ Observed
  \/ \E j \in 1..Len(restarts[Me]) : \E ok \in BOOLEAN : RestartAcquired(Me, j, ok) /\ Observed
  \/ \E j \in 1..Len(restarts[Me]) : RestartReplaced(Me, j) /\ Observed
  \/ \E lvl \in Levels : MicChange(Me, lvl) /\ Observed
  \/ VideoTrackEnds(Me) /\ Observed
  \/ Tick /\ Observed

SpecMedia == InitPage /\ [][NextMedia]_vars

\* ------------------------------------- one page whose user leaves the buttons alone

\* the monitor and its restarts with no toggleMute and no toggleVideo
NextRestart ==
  \/ Join(Me, FALSE) /\ Observed
  \/ ServerJoinRoom(Me) /\ Observed
  \/ \E i \in 1..Len(loops[Me]) : checkMediaHealth(Me, i) /\ Observed
  \/ \E j \in 1..Len(restarts[Me]) : \E ok \in BOOLEAN : RestartAcquired(Me, j, ok) /\ Observed
  \/ \E j \in 1..Len(restarts[Me]) : RestartReplaced(Me, j) /\ Observed
  \/ \E lvl \in Levels : MicChange(Me, lvl) /\ Observed
  \/ VideoTrackEnds(Me) /\ Observed
  \/ Tick /\ Observed

SpecRestart == InitPage /\ [][NextRestart]_vars

\* ------------------------------------------- one page whose transports can fail

\* the relay's packets about the parties s2 and s3
FailInbound ==
  {Msg(t, None, id, "bob") : t \in {"user-connected", "offer", "answer"},
                             id \in Clients \ {Me}}
    \cup {Msg("user-disconnected", None, id, None) : id \in Clients \ {Me}}

NextFailure ==
  \/ Join(Me, FALSE) /\ UNCHANGED history
  \/ ServerJoinRoom(Me) /\ UNCHANGED history
  \/ ServerOffer(Me) /\ UNCHANGED history
  \/ ServerAnswer(Me) /\ UNCHANGED history
  \/ \E m \in FailInbound : Inject(m)
  \/ OnUserConnected(Me) /\ UNCHANGED history
  \/ OnUserDisconnected(Me) /\ UNCHANGED history
  \/ OnOffer(Me) /\ UNCHANGED history
  \/ OnAnswer(Me) /\ UNCHANGED history
  \/ \E i \in 1..Len(peersRef[Me]) : PeerSignalSdp(Me, i) /\ UNCHANGED history
  \/ \E i \in 1..Len(peersRef[Me]) : PeerError(Me, i) /\ UNCHANGED history

SpecFailure == InitPage /\ [][NextFailure]_vars

\* ------------------------------------- one page, its links and its restarts

\* instants of the clock while the swaps are observed
MaxSwapTick == 1

\* the relay's packets that make the page build a link
SwapInbound == {Msg("user-connected", None, "s2", "bob"), Msg("offer", None, "s3", "bob")}

\* the transport of a link whose far end is outside the model connects
PeerConnectRemote(c, i) ==
  /\ cphase[c] = "joined"
  /\ i \in 1..Len(peersRef[c])
  /\ peersRef[c][i].st \in {"AnswerApplied", "AnswerCreated"}
  /\ peersRef' = [peersRef EXCEPT ![c][i].st = "Connected"]
  /\ UNCHANGED <<serverVars, toServer, toClient, cphase, userName, counters, boundVars, mediaVars, speakVars>>

NextSwap ==
  \/ Join(Me, FALSE) /\ UNCHANGED history
  \/ ServerJoinRoom(Me) /\ UNCHANGED history
  \/ ServerAnswer(Me) /\ UNCHANGED history
  \/ ServerPeerStateChanged(Me) /\ UNCHANGED history
  \/ \E m \in SwapInbound : Inject(m)
  \/ OnUserConnected(Me) /\ UNCHANGED history
  \/ OnOffer(Me) /\ UNCHANGED history
  \/ \E i \in 1..Len(peersRef[Me]) :
       ~peersRef[Me][i].initiator /\ PeerSignalSdp(Me, i) /\ UNCHANGED history
  \/ \E i \in 1..Len(peersRef[Me]) : PeerConnectRemote(Me, i) /\ UNCHANGED history
  \/ \E i \in 1..Len(peersRef[Me]) : PeerError(Me, i) /\ UNCHANGED history
  \/ toggleMute(Me) /\ UNCHANGED history
  \/ \E i \in 1..Len(loops[Me]) : checkMediaHealth(Me, i) /\ UNCHANGED history
  \/ \E j \in 1..Len(restarts[Me]) : \E ok \in BOOLEAN :
       RestartAcquired(Me, j, ok) /\ UNCHANGED history
  \/ \E j \in 1..Len(restarts[Me]) : RestartReplaced(Me, j) /\ UNCHANGED history
  \/ VideoTrackEnds(Me) /\ UNCHANGED history
  \/ now < MaxSwapTick /\ Tick /\ UNCHANGED history

SpecSwap == InitPage /\ [][NextSwap]_vars

\* ------------------------------------------------------ the order on the screen
\* page.tsx 757-761: the render sorts a copy of peers by the stamps.

\* the stamps are Date.now() values, always positive: 1..MaxStamp
MaxStamp == 2

\* speakingActivity.get(peerId) || 0
ActivityOf(activity, peerId) ==
  IF activity[peerId] = -1 THEN 0 ELSE activity[peerId]

\* the comparator of the sort, over the activity of each peerId
Compare(activity, a, b) == activity[b.peerId] - activity[a.peerId]

\* Array.prototype.sort is stable: p goes before the first element the comparator
\* puts after it and behind every other
InsertBy(activity, out, p) ==
  LET later == {i \in 1..Len(out) : Compare(activity, out[i], p) > 0}
      k == IF later = {} THEN Len(out) + 1
           ELSE CHOOSE i \in later : \A j \in later : i <= j
  IN  SubSeq(out, 1, k - 1) \o <<p>> \o SubSeq(out, k, Len(out))

RECURSIVE SortBy(_, _, _)
SortBy(activity, out, rest) ==
  IF rest = <<>> THEN out
  ELSE SortBy(activity, InsertBy(activity, out, Head(rest)), Tail(rest))

\* a mutant of sortedPeers: the comparator returns aActivity - bActivity
sortedPeersAscending(peers, activity) ==
  SortBy([id \in DOMAIN activity |-> 0 - ActivityOf(activity, id)], <<>>, peers)

\* [...peers].sort((a, b) => bActivity - aActivity)
sortedPeers(peers, activity) ==
  SortBy([id \in DOMAIN activity |-> ActivityOf(activity, id)], <<>>, peers)

\* the ids a peer list can hold: no id twice
ListedIds == {q \in UNION {[1..n -> (Clients \ {Me}) \cup {NoId}] : n \in 0..3} :
                \A i, j \in 1..Len(q) : i # j => q[i] # q[j]}

\* a stamp is written for a party whose stream the tracker has read, or not at all
Stamps == [Clients \ {Me} -> {-1} \cup 1..MaxStamp]

\* page s1 with any peer list and any stamps the handlers can have left
InitOrder ==
  \E q \in ListedIds : \E f \in Stamps :
    InitFrom({Me},
             [c \in Clients |->
                IF c = Me
                THEN [i \in 1..Len(q) |->
                        PeerRef(q[i], TRUE, Participant,
                                IF q[i] = NoId THEN "New" ELSE "Connected")]
                ELSE <<>>],
             [c \in Clients |->
                [x \in Clients \cup {NoId} |->
                   IF c = Me /\ x \in DOMAIN f THEN f[x] ELSE -1]])

\* the render of the video grid
Render(c) ==
  /\ rendered' = [rendered EXCEPT ![c] =
                    LET sp == sortedPeers(peersRef[c], speakingActivity[c])
                    IN  [i \in 1..Len(sp) |-> sp[i].peerId]]
  /\ UNCHANGED <<serverVars, toServer, toClient, cphase, userName, peersRef, counters,
                 boundVars, mediaVars, speakVars, meshHistory, mediaHistory>>

NextOrder == Render(Me)

SpecOrder == InitOrder /\ [][NextOrder]_vars

\* --------------------------------------------- one page and its speaker tracker

\* The relay's packets while the party s2 is in the call: its offer, and the join,
\* the state change and the departure of the party s3.
SpeakInbound ==
  {Msg("offer", None, "s2", "bob"),
   Msg("user-connected", None, "s3", Participant),
   Msg("user-disconnected", None, "s3", None),
   PeerStateMsg(None, "s3", TRUE, FALSE)}

NextSpeaker ==
  \/ Join(Me, FALSE) /\ UNCHANGED history
  \/ ServerJoinRoom(Me) /\ UNCHANGED history
  \/ \E m \in SpeakInbound : Inject(m)
  \/ OnOffer(Me) /\ UNCHANGED history
  \/ OnUserConnected(Me) /\ UNCHANGED history
  \/ OnUserDisconnected(Me) /\ UNCHANGED history
  \/ OnPeerStateChanged(Me) /\ UNCHANGED history
  \/ \E i \in 1..Len(peersRef[Me]) : PeerStream(Me, i) /\ UNCHANGED history
  \/ \E i \in 1..Len(loops[Me]) : checkMediaHealth(Me, i) /\ UNCHANGED history
  \/ \E i \in 1..Len(speakLoops[Me]) : checkAudioLevel(Me, i) /\ UNCHANGED history
  \/ \E x \in Clients : TimerFires(Me, x) /\ UNCHANGED history
  \/ \E x \in Clients : \E lvl \in SpeakLevels : SpeakChange(Me, x, lvl) /\ UNCHANGED history
  \/ Tick /\ UNCHANGED history

SpecSpeaker == InitPage /\ [][NextSpeaker]_vars

\* ------------------------------------------- the room and its state changes

\* three pages join through the relay and mute or unmute; the signalling of the
\* links is left to Spec
NextState ==
  \/ \E s \in Clients : ServerJoinRoom(s) /\ UNCHANGED history
  \/ \E s \in Clients : ServerPeerStateChanged(s) /\ UNCHANGED history
  \/ \E c \in Clients : Join(c, FALSE) /\ UNCHANGED history
  \/ \E c \in Clients : OnUserConnected(c) /\ UNCHANGED history
  \/ \E c \in Clients : OnPeerStateChanged(c) /\ UNCHANGED history
  \/ \E c \in Clients : toggleMute(c) /\ UNCHANGED history
  \/ \E c \in Clients : toggleVideo(c) /\ UNCHANGED history

SpecState == InitWith(Clients) /\ [][NextState]_vars

\* ------------------------------------------- the relay and sockets that join again

\* join-room packets the sockets send, all of them together
MaxJoins == 3

\* the rooms of two calls
CallRooms == {"R", "Q"}

\* a socket emits join-room with its own id and a name of the WHITELIST
SendJoin(s, r) ==
  /\ s \in connected
  /\ nSent < MaxJoins
  /\ nSent' = nSent + 1
  /\ \A t \in Clients : toServer[t] = <<>>
  /\ toServer' = [toServer EXCEPT ![s] = Append(@, Msg("join-room", r, s, "alice"))]
  /\ UNCHANGED <<serverVars, toClient, cphase, userName, peersRef, counters, nInjected, mediaVars, speakVars, history>>

\* a socket closes
Close(s) ==
  /\ s \in connected
  /\ \A t \in Clients : toServer[t] = <<>>
  /\ toServer' = [toServer EXCEPT ![s] = Append(@, Msg("disconnect", None, None, None))]
  /\ UNCHANGED <<serverVars, toClient, cphase, userName, peersRef, counters, boundVars, mediaVars, speakVars, history>>

NextRejoin ==
  \/ \E s \in Clients : ServerJoinRoom(s) /\ UNCHANGED history
  \/ \E s \in Clients : ServerDisconnect(s) /\ UNCHANGED history
  \/ \E s \in Clients : \E r \in CallRooms : SendJoin(s, r)
  \/ \E s \in Clients : Close(s)

SpecRejoin == Init /\ [][NextRejoin]_vars

\* ------------------------------------------- pages whose devices may be refused

\* the relay and three pages, each of which gets its media and joins or is refused
NextDenied ==
  \/ \E s \in Clients : ServerJoinRoom(s) /\ UNCHANGED history
  \/ \E s \in Clients : ServerOffer(s) /\ UNCHANGED history
  \/ \E s \in Clients : ServerAnswer(s) /\ UNCHANGED history
  \/ \E c \in Clients : Join(c, FALSE) /\ UNCHANGED history
  \/ \E c \in Clients : getUserMediaFails(c) /\ UNCHANGED history
  \/ \E c \in Clients : OnUserConnected(c) /\ UNCHANGED history
  \/ \E c \in Clients : OnOffer(c) /\ UNCHANGED history
  \/ \E c \in Clients : OnAnswer(c) /\ UNCHANGED history
  \/ \E c \in Clients : \E i \in 1..Len(peersRef[c]) : PeerSignalSdp(c, i) /\ UNCHANGED history
  \/ \E c \in Clients : \E i \in 1..Len(peersRef[c]) : PeerConnect(c, i) /\ UNCHANGED history

SpecDenied == Init /\ [][NextDenied]_vars

\* ------------------------------------------- two pages, their link and their buttons

\* the two pages of the call
Pair == {"s1", "s2"}

\* the relay and two pages that join, negotiate their link and mute or unmute
NextSync ==
  \/ \E s \in Pair : ServerJoinRoom(s) /\ UNCHANGED history
  \/ \E s \in Pair : ServerOffer(s) /\ UNCHANGED history
  \/ \E s \in Pair : ServerAnswer(s) /\ UNCHANGED history
  \/ \E s \in Pair : ServerPeerStateChanged(s) /\ UNCHANGED history
  \/ \E c \in Pair : Join(c, FALSE) /\ UNCHANGED history
  \/ \E c \in Pair : OnUserConnected(c) /\ UNCHANGED history
  \/ \E c \in Pair : OnOffer(c) /\ UNCHANGED history
  \/ \E c \in Pair : OnAnswer(c) /\ UNCHANGED history
  \/ \E c \in Pair : OnPeerStateChanged(c) /\ UNCHANGED history
  \/ \E c \in Pair : \E i \in 1..Len(peersRef[c]) : PeerSignalSdp(c, i) /\ UNCHANGED history
  \/ \E c \in Pair : \E i \in 1..Len(peersRef[c]) : PeerConnect(c, i) /\ UNCHANGED history
  \/ \E c \in Pair : toggleMute(c) /\ UNCHANGED history
  \/ \E c \in Pair : toggleVideo(c) /\ UNCHANGED history

SpecSync == InitWith(Pair) /\ [][NextSync]_vars

\* ------------------------------------------------------------------- claims

PeerIds == Clients \cup {NoId}

\* the PeerRefs of a list that are for id
Matches(pr, id) == {i \in 1..Len(pr) : pr[i].peerId = id}

\* the first PeerRef of a list for id
PeerOf(pr, id) == pr[CHOOSE i \in Matches(pr, id) : \A j \in Matches(pr, id) : i <= j]

\* page c handles, in this step, the packet of the given type at the head of its queue
Handles(c, type) ==
  /\ ClientHas(c, type)
  /\ toClient'[c] = Tail(toClient[c])

\* page c emits a packet in this step
Emits(c) == Len(toServer'[c]) = Len(toServer[c]) + 1

Emitted(c) == toServer'[c][Len(toServer'[c])]

\* the relay handles, in this step, the packet of the given type socket s sent
Serves(s, type) ==
  /\ ServerHas(s, type)
  /\ \/ toServer'[s] = Tail(toServer[s])
     \/ s \notin connected'

\* q2 is q1 with more packets after it
Extends(q2, q1) ==
  /\ Len(q2) >= Len(q1)
  /\ SubSeq(q2, 1, Len(q1)) = q1

\* the packets q2 has after those of q1
NewIn(q2, q1) == {q2[i] : i \in (Len(q1) + 1)..Len(q2)}

\* C1: a page never holds two PeerRefs for one remote id; a user-connected or an
\* offer leaves exactly one PeerRef for its id, and when the page already had one
\* the packet changes nothing in the peer set.
C1_OnePeerLinkPerRemoteId ==
  /\ [](\A c \in Clients : \A id \in PeerIds : Cardinality(Matches(peersRef[c], id)) <= 1)
  /\ [][\A c \in Clients :
          Handles(c, "user-connected") \/ Handles(c, "offer") =>
            LET id == Head(toClient[c]).id IN
            /\ Cardinality(Matches(peersRef'[c], id)) = 1
            /\ HasPeer(c, id) => peersRef'[c] = peersRef[c]]_vars

\* an offer from s2 was handled while the page held the initiator PeerRef a
\* user-connected for s2 had created
C1_Witness ==
  /\ lastDup = [type |-> "offer", id |-> "s2"]
  /\ Matches(peersRef[Me], "s2") # {}
  /\ PeerOf(peersRef[Me], "s2").initiator

\* C2: the role of a PeerRef is set at creation (initiator by user-connected,
\* responder by offer) and never changes while the page holds it; only an initiator
\* PeerRef emits an offer and only a responder PeerRef emits an answer.
C2_RoleFixedAtCreation ==
  [][\A c \in Clients :
       /\ \A id \in PeerIds :
            /\ Matches(peersRef[c], id) # {} /\ Matches(peersRef'[c], id) # {} =>
                 PeerOf(peersRef'[c], id).initiator = PeerOf(peersRef[c], id).initiator
            /\ Matches(peersRef[c], id) = {} /\ Matches(peersRef'[c], id) # {} =>
                 /\ Handles(c, "user-connected") \/ Handles(c, "offer")
                 /\ PeerOf(peersRef'[c], id).initiator = Handles(c, "user-connected")
       /\ Emits(c) /\ Emitted(c).type \in {"offer", "answer"} =>
            /\ Matches(peersRef[c], Emitted(c).id) # {}
            /\ PeerOf(peersRef[c], Emitted(c).id).initiator = (Emitted(c).type = "offer")
  ]_vars

\* a user-connected for s3 was handled while the page held the responder PeerRef
\* for s3 that had already answered
C2_Witness ==
  /\ lastDup = [type |-> "user-connected", id |-> "s3"]
  /\ Matches(peersRef[Me], "s3") # {}
  /\ ~PeerOf(peersRef[Me], "s3").initiator
  /\ PeerOf(peersRef[Me], "s3").st = "AnswerCreated"

\* C3: a join-room with a name outside the whitelist sends one error to the
\* requester and nothing to anyone else, and leaves rooms, names, disconnect
\* listeners and connections as they were.
C3_RejectedJoin ==
  [][\A s \in Clients :
       Serves(s, "join-room") /\ Head(toServer[s]).name \notin WHITELIST =>
         /\ toClient' = [toClient EXCEPT ![s] = Append(@, Msg("error", None, None, None))]
         /\ UNCHANGED <<rooms, userNames, hooks, connected>>
  ]_vars

\* s2 was rejected while s1 was in a room: s2 got the error and is nowhere, s1 got nothing
C3_Witness ==
  /\ rooms["s1"] # {}
  /\ toClient["s1"] = <<>>
  /\ toClient["s2"] = <<Msg("error", None, None, None)>>
  /\ rooms["s2"] = {} /\ userNames["s2"] = None /\ hooks["s2"] = <<>>

C5_Disconnect ==
  [][\A s \in Clients :
       Serves(s, "disconnect") /\ hooks[s] # <<>> =>
         /\ \A i \in 1..Len(hooks[s]) : \A t \in Members(hooks[s][i].room) \ {s} :
              /\ Extends(toClient'[t], toClient[t])
              /\ Msg("user-disconnected", None, hooks[s][i].id, None)
                   \in NewIn(toClient'[t], toClient[t])
         /\ userNames'[s] = None
         /\ \A r \in AnyRooms \cup Clients : s \notin MembersIn(connected', rooms', r)
  ]_vars

\* s2 joined room R where s1 was and then disconnected
C5_Witness ==
  /\ "s2" \notin connected
  /\ "R" \in rooms["s1"]
  /\ toClient["s1"] = <<Msg("user-connected", None, "s2", "alice"),
                        Msg("user-disconnected", None, "s2", None)>>
  /\ userNames["s2"] = None

\* ---- the closed system at rest

\* the pages whose join-room the relay accepted and that have not left
Live == {c \in Clients : cphase[c] = "joined" /\ \E i \in 1..Len(joinOrder) : joinOrder[i] = c}

\* nothing is in flight and no SimplePeer has a signal to emit or a transport to connect
Settled ==
  /\ \A c \in Clients : toServer[c] = <<>>
  /\ \A c \in Clients : cphase[c] = "joined" => toClient[c] = <<>>
  /\ \A c \in Clients : \A i \in 1..Len(peersRef[c]) :
       ~ENABLED PeerSignalSdp(c, i) /\ ~ENABLED PeerConnect(c, i)

\* C6: with A joined first and B second in room R and nobody else, once everything
\* is delivered A holds exactly one PeerRef (B, initiator, Connected) and B exactly
\* one PeerRef (A, responder, Connected).
C6_EndToEnd ==
  \A a, b \in Clients :
    joinOrder = <<a, b>> /\ Live = {a, b} /\ Settled =>
      /\ Len(peersRef[a]) = 1 /\ Len(peersRef[b]) = 1
      /\ peersRef[a][1].peerId = b /\ peersRef[a][1].initiator
      /\ peersRef[a][1].st = "Connected"
      /\ peersRef[b][1].peerId = a /\ ~peersRef[b][1].initiator
      /\ peersRef[b][1].st = "Connected"

\* C7: once everything is delivered, every live page holds exactly one PeerRef per
\* other live page and no other.
C7_MeshComplete ==
  Settled =>
    \A c \in Live :
      /\ Len(peersRef[c]) = Cardinality(Live) - 1
      /\ \A d \in Live \ {c} : Cardinality(Matches(peersRef[c], d)) = 1

\* ---- the media monitor

\* the loops that have run their frame at this instant
Checked(ls) == Cardinality({i \in 1..Len(ls) : ls[i].checked})

\* C8: at most one restartMedia call per page has started and not yet finished
C8_OneRestartInFlight ==
  \A c \in Clients : Len(restarts[c]) <= 1

\* the monitor sits idle although the page has been unmuted, not restarting and
\* silent, with nothing else happening to its media, for more than SILENCE_DURATION
\* and every loop has run its frame
IdleAfterSilence ==
  /\ stream[Me] /\ ~muted[Me] /\ restartingMode[Me] = None
  /\ Heard(Me) < SILENCE_THRESHOLD
  /\ (now - quietSince) * TickMs > SILENCE_DURATION
  /\ \A i \in 1..Len(loops[Me]) : loops[Me][i].checked

\* C9: silence held for SILENCE_DURATION while the page is unmuted and no restart is
\* in progress triggers an audio restart, and triggers it once: the first frame after
\* the ten seconds does not leave the monitor idle, and no two audio restarts start
\* within SILENCE_DURATION of each other.
C9_SilenceRestartsOnce ==
  /\ []~IdleAfterSilence
  /\ [][AudioRestartStarts(Me) /\ lastAudioStart >= 0 =>
          (now - lastAudioStart) * TickMs > SILENCE_DURATION]_vars

\* C10: while restartingMode is set no loop of the monitor, whenever it was started,
\* runs a check or starts a restart
C10_NoCheckWhileRestarting ==
  [][\A c \in Clients :
       restartingMode[c] # None =>
         /\ Checked(loops'[c]) <= Checked(loops[c])
         /\ Len(restarts'[c]) <= Len(restarts[c])]_vars

\* C11: once a restart has finished, no silence-triggered audio restart starts
\* earlier than SILENCE_DURATION after the instant it finished
C11_TimerFromCompletion ==
  [][AudioRestartStarts(Me) /\ lastRestartDone >= 0 =>
       (now - lastRestartDone) * TickMs >= SILENCE_DURATION]_vars

\* ---- the speaker tracker

\* the party x has been above the speaking threshold, without a break, for ms
Speaking(x, ms) ==
  /\ energy[x].level > SPEAKING_THRESHOLD
  /\ (now - energy[x].since) * SpeakTickMs >= ms

\* the party x was above the speaking threshold, without a break, for the ms that
\* end now
Spoke(x, ms) ==
  \/ Speaking(x, ms)
  \/ /\ energy[x].level <= SPEAKING_THRESHOLD
     /\ energy[x].since = now
     /\ energy[x].before >= 0
     /\ (now - energy[x].before) * SpeakTickMs >= ms

\* C12: a stamp is written for a link only when the link's energy has been above the
\* speaking threshold for SPEAKING_DURATION_TO_REORDER without a break
C12_StampOnlyAfterDebounce ==
  [][\A x \in Clients :
       speakingActivity'[Me][x] # speakingActivity[Me][x] =>
         Spoke(x, SPEAKING_DURATION_TO_REORDER)]_vars

C12_Witness ==
  /\ speakingActivity[Me]["s2"] >= 0
  /\ speakingTimersRef[Me]["s2"].fired

\* C13: a link with a stream whose energy has been above the threshold for more than
\* SPEAKING_DURATION_TO_REORDER holds the stamp of that burst, taken
\* SPEAKING_DURATION_TO_REORDER after the energy rose
C13_OneStampAtThreeSeconds ==
  \A x \in Clients :
    /\ cphase[Me] = "joined"
    /\ x \in WithStream(peersRef[Me])
    /\ Speaking(x, SPEAKING_DURATION_TO_REORDER + 1)
    => /\ speakingActivity[Me][x] >= 0
       /\ (speakingActivity[Me][x] - energy[x].since) * SpeakTickMs
            >= SPEAKING_DURATION_TO_REORDER
       /\ (speakingActivity[Me][x] - energy[x].since) * SpeakTickMs
            < SPEAKING_DURATION_TO_REORDER + SpeakTickMs

\* ---- state changes of the remote parties

\* the list pr with the muted and videoOff of its first PeerRef for id set
WithState(pr, id, m, v) ==
  [i \in 1..Len(pr) |->
     IF i \in Matches(pr, id) /\ \A j \in Matches(pr, id) : i <= j
     THEN [pr[i] EXCEPT !.muted = <<m>>, !.videoOff = <<v>>]
     ELSE pr[i]]

\* C14: the relay passes a peer-state-changed to every other member of the room and
\* to no one else; a page that handles it sets the muted and videoOff of its PeerRef
\* for the packet's userId and nothing else of its peer list or its stamps, and a
\* page with no PeerRef for that userId changes nothing.
C14_PeerStateFrame ==
  [][/\ \A s \in Clients :
          Serves(s, "peer-state-changed") =>
            LET m == Head(toServer[s]) IN
            /\ \A t \in Clients :
                 toClient'[t] =
                   IF t \in Members(m.room) \ {s}
                   THEN Append(toClient[t], PeerStateMsg(None, m.id, m.muted, m.videoOff))
                   ELSE toClient[t]
            /\ UNCHANGED <<serverVars, peersRef, speakingActivity>>
     /\ \A c \in Clients :
          Handles(c, "peer-state-changed") =>
            LET m == Head(toClient[c]) IN
            /\ peersRef' = [peersRef EXCEPT ![c] = WithState(@, m.id, m.muted, m.videoOff)]
            /\ UNCHANGED <<speakingActivity, toServer, serverVars>>
            /\ ~HasPeer(c, m.id) => UNCHANGED <<peersRef, speakVars, mediaVars>>
  ]_vars

\* s1 holds PeerRefs for s2 and s3 and has handled the state change of s2 alone
C14_Witness ==
  /\ Matches(peersRef["s1"], "s2") # {}
  /\ Matches(peersRef["s1"], "s3") # {}
  /\ PeerOf(peersRef["s1"], "s2").muted = <<TRUE>>
  /\ PeerOf(peersRef["s1"], "s2").videoOff = <<FALSE>>
  /\ PeerOf(peersRef["s1"], "s3").muted = <<>>
  /\ muted["s2"]

\* ---- the relay of offers and answers

\* C15: an offer or answer is delivered to the connected session its `to` names and
\* to no other; the packet delivered carries the sender's socket id as from and the
\* name the directory holds for the sender as userName, whatever the payload says.
C15_RelayStamps ==
  [][\A s \in Clients : \A type \in {"offer", "answer"} :
       Serves(s, type) =>
         LET m == Head(toServer[s]) IN
         \A t \in Clients :
           toClient'[t] =
             IF t = m.id /\ t \in connected /\ t # s
             THEN Append(toClient[t],
                         Msg(type, None, s, IF userNames[s] = None THEN Participant
                                            ELSE userNames[s]))
             ELSE toClient[t]
  ]_vars

\* C16: an offer, answer or ice-candidate whose `to` names a session that is not
\* connected reaches no session, and the relay's rooms, names and listeners stay as
\* they are.
C16_DeadAddressDropped ==
  [][\A s \in Clients : \A type \in {"offer", "answer", "ice-candidate"} :
       Serves(s, type) /\ Head(toServer[s]).id \in Clients \ connected =>
         UNCHANGED <<toClient, serverVars>>
  ]_vars

\* ---- the end of a restart

\* the restartMedia call j of the page c ran its finally block in this step
Ended(c, j) ==
  /\ j \in 1..Len(restarts[c])
  /\ restarts'[c] = RemoveAt(restarts[c], j)

\* C17: a restart that ends leaves restartingMode null, whether it replaced the track
\* or getUserMedia was rejected; a rejected audio restart sets the error and a
\* rejected video restart, like a successful one, leaves the error as it was; and
\* restartingMode is never set without a restartMedia call still to end.
C17_RestartOutcome ==
  /\ [](restartingMode[Me] # None => restarts[Me] # <<>>)
  /\ [][\A j \in 1..Len(restarts[Me]) :
          Ended(Me, j) =>
            LET r == restarts[Me][j] IN
            /\ restartingMode'[Me] = None
            /\ error'[Me] = (error[Me] \/ (r.phase = "acquiring" /\ r.type = "audio"))
     ]_vars

\* an audio restart was rejected: the error is set and no restart is in progress
C17_Witness ==
  /\ error[Me]
  /\ lastRestartDone >= 0
  /\ restartingMode[Me] = None
  /\ restarts[Me] = <<>>

\* ---- leaving

\* a local track of the page c is live: captured and not stopped
TrackRunning(c) == stream[c] /\ ~(audioEnded[c] /\ videoBad[c])

\* C18: once the page has left, each of its PeerRefs is destroyed, its socket is
\* disconnecting or disconnected, and no track of its stream is still running.
C18_LeaveReleases ==
  \A c \in Clients :
    cphase[c] = "gone" =>
      /\ \A i \in 1..Len(peersRef[c]) : peersRef[c][i].st = "Closed"
      /\ \/ c \notin connected
         \/ \E k \in 1..Len(toServer[c]) : toServer[c][k].type = "disconnect"
      /\ ~TrackRunning(c)

\* ---- the order of the tiles

\* out lists the peerIds of peers by stamp, latest first, the unstamped last, and in
\* the order of peers where the stamps are equal or missing
Ordered(out, peers, activity) ==
  LET Pos(id) == CHOOSE k \in 1..Len(peers) : peers[k].peerId = id IN
  /\ Len(out) = Len(peers)
  /\ {out[i] : i \in 1..Len(out)} = {peers[k].peerId : k \in 1..Len(peers)}
  /\ \A i, j \in 1..Len(out) :
       i < j =>
         /\ activity[out[j]] >= 0 => activity[out[i]] >= activity[out[j]]
         /\ activity[out[i]] = activity[out[j]] => Pos(out[i]) < Pos(out[j])

\* C19: what the render shows is the peer list ordered by lastSpeakingAt, the most
\* recent first; equal stamps keep the order of the peer list; the unstamped come
\* after every stamped one, in the order of the peer list.
C19_PresentationOrder ==
  [][rendered'[Me] # rendered[Me] =>
       Ordered(rendered'[Me], peersRef[Me], speakingActivity[Me])]_vars

\* the list undefined, s2, s3 with s3 the latest speaker is shown as s3, s2, undefined
C19_Witness ==
  /\ Len(peersRef[Me]) = 3
  /\ peersRef[Me][1].peerId = NoId
  /\ speakingActivity[Me]["s2"] = 1
  /\ speakingActivity[Me]["s3"] = 2
  /\ rendered[Me] = <<"s3", "s2", NoId>>

\* ---- a transport that fails

\* the PeerRefs of a list that are for id: their role and the state of their peer
LinksFor(pr, id) ==
  LET sel == SelectSeq(pr, LAMBDA p : p.peerId = id)
  IN  [k \in 1..Len(sel) |-> [initiator |-> sel[k].initiator, st |-> sel[k].st]]

\* the transport of the PeerRef i of page c fails in this step
Fails(c, i) ==
  /\ toClient'[c] = toClient[c]
  /\ Len(peersRef'[c]) = Len(peersRef[c])
  /\ peersRef[c][i].st # "Failed"
  /\ peersRef'[c][i].st = "Failed"

\* C20: while the page holds a PeerRef whose transport has failed it emits no offer
\* to that id and keeps that PeerRef as its only one for the id, until it handles a
\* user-disconnected for the id; and the step in which a transport fails changes no
\* other PeerRef, emits nothing and leaves the page's error state as it was.
C20_FailureTerminalAndIsolated ==
  [][\A i \in 1..Len(peersRef[Me]) :
       LET p == peersRef[Me][i] IN
       /\ p.st = "Failed" /\ cphase'[Me] = "joined" =>
            /\ ~(Emits(Me) /\ Emitted(Me).type = "offer" /\ Emitted(Me).id = p.peerId)
            /\ \/ Handles(Me, "user-disconnected") /\ Head(toClient[Me]).id = p.peerId
               \/ LinksFor(peersRef'[Me], p.peerId) = LinksFor(peersRef[Me], p.peerId)
       /\ Fails(Me, i) =>
            /\ peersRef'[Me] = [peersRef[Me] EXCEPT ![i].st = "Failed"]
            /\ UNCHANGED <<error, restartingMode, cphase, toServer>>
  ]_vars

\* the transport to s2 has failed while the link to s3 stands, and no error is set
C20_Witness ==
  /\ Len(peersRef[Me]) = 2
  /\ PeerOf(peersRef[Me], "s2").st = "Failed"
  /\ PeerOf(peersRef[Me], "s2").initiator
  /\ PeerOf(peersRef[Me], "s3").st = "AwaitingAnswer"
  /\ ~error[Me]

\* ---- a restart that failed

\* C21: the monitor starts no restart of the kind that has just failed while nothing
\* but the failure has happened: no time has passed and neither the devices nor the
\* user have changed anything since the failed call cleared restartingMode.
C21_NoImmediateRetry ==
  [][\A type \in {"audio", "video"} :
       RestartStarts(Me, type) => lastFailed # type]_vars

\* ---- the muted page

\* C22: no restartMedia("audio") gets past its guard while the page is muted.
C22_MutedNoAudioRestart ==
  [][muted[Me] => ~RestartStarts(Me, "audio")]_vars

\* ---- the loops of the monitor

\* C23: at most one loop of the monitor is running: the loop the last run of the
\* effect started, and none that an earlier run started.
C23_OneLoop ==
  \A c \in Clients : Len(loops[c]) <= 1 /\ \A i \in 1..Len(loops[c]) : loops[c][i].cur

\* ---- inbound answers

\* the states of the SimplePeer instances of a peer list
States(pr) == [i \in 1..Len(pr) |-> pr[i].st]

\* C24: an answer whose sender the page holds no PeerRef for, or a PeerRef built by
\* addPeer (initiator: false), reaches no SimplePeer instance: every instance stays
\* in the state it was in.
C24_AnswerToInitiatorOnly ==
  [][Handles(Me, "answer") =>
       LET i == FindPeer(Me, Head(toClient[Me]).id) IN
       (i = 0 \/ ~peersRef[Me][i].initiator) =>
         States(peersRef'[Me]) = States(peersRef[Me])]_vars

\* C25: an answer leaves the userName of every PeerRef as it is, except that the
\* placeholder "Participant" of the sender's PeerRef gives way to the answer's name.
C25_NameBackfillOnly ==
  [][Handles(Me, "answer") =>
       LET m == Head(toClient[Me]) IN
       /\ Len(peersRef'[Me]) = Len(peersRef[Me])
       /\ \A i \in 1..Len(peersRef[Me]) :
            \/ peersRef'[Me][i].userName = peersRef[Me][i].userName
            \/ /\ peersRef[Me][i].userName = Participant
               /\ peersRef[Me][i].peerId = m.id
               /\ peersRef'[Me][i].userName = m.name]_vars

\* the page has applied the answer of s2, whose PeerRef carries the name "bob"
C25_Witness ==
  /\ Matches(peersRef[Me], "s2") # {}
  /\ PeerOf(peersRef[Me], "s2").initiator
  /\ PeerOf(peersRef[Me], "s2").st = "AnswerApplied"
  /\ PeerOf(peersRef[Me], "s2").userName = "bob"

\* ---- inbound candidates

\* C26: a candidate whose sender the page holds no PeerRef for changes neither the
\* peer list nor the error state, and nothing is emitted; a candidate whose sender
\* the page holds a live PeerRef for is given to that PeerRef's instance, whatever
\* the state of its negotiation, and changes no other PeerRef.
C26_CandidateFrame ==
  [][Handles(Me, "ice-candidate") =>
       LET i == FindPeer(Me, Head(toClient[Me]).id) IN
       /\ UNCHANGED <<error, toServer, cphase>>
       /\ i = 0 => peersRef'[Me] = peersRef[Me]
       /\ i # 0 /\ peersRef[Me][i].st \notin {"Closed", "Failed"} =>
            peersRef'[Me] = [peersRef[Me] EXCEPT ![i].candidates = @ + 1]]_vars

\* the PeerRef for s2 was given a candidate before the answer came, and the PeerRef
\* for s3 was given none
C26_Witness ==
  /\ Len(peersRef[Me]) = 2
  /\ PeerOf(peersRef[Me], "s2").candidates = 1
  /\ PeerOf(peersRef[Me], "s2").st \in {"New", "AwaitingAnswer"}
  /\ PeerOf(peersRef[Me], "s3").candidates = 0

\* ---- a party leaves

\* C27: a user-disconnected takes the PeerRefs of its userId out of the peer list and
\* leaves the others as they are and in their order; when the page holds no PeerRef
\* for the userId, nothing of the page changes.
C27_PeerLeftFrame ==
  [][Handles(Me, "user-disconnected") =>
       LET m == Head(toClient[Me]) IN
       /\ peersRef'[Me] = SelectSeq(peersRef[Me], LAMBDA p : p.peerId # m.id)
       /\ ~HasPeer(Me, m.id) => UNCHANGED <<peersRef, toServer, mediaVars, speakVars>>]_vars

\* ---- after a departure

\* the pages that have left and whose socket the relay has seen close
Departed == {x \in Clients : cphase[x] = "gone" /\ x \notin connected}

\* C28: once everything is delivered, no page that is still in the call holds a
\* PeerRef for a page that has left.
C28_NoLinkToDeparted ==
  Settled =>
    \A c \in Clients : cphase[c] = "joined" =>
      \A x \in Departed : Matches(peersRef[c], x) = {}

\* ---- one id per session

\* C29: the userId a socket's join-room announced, which its user-connected and
\* user-disconnected carry, is the socket's id, which the relay stamps as from on its
\* offers, answers and candidates.
C29_AnnouncedIdIsSocketId ==
  \A s \in Clients : \A i \in 1..Len(hooks[s]) : hooks[s][i].id = s

\* ---- sockets outside every room

\* C30: when the relay handles an offer, answer or ice-candidate of a socket that
\* is in no room (its join-room was rejected or never sent), no packet reaches a
\* socket that joined a room.
C30_OutsiderIsolated ==
  [][\A s \in Clients :
       (ServerHas(s, "offer") \/ ServerHas(s, "answer") \/ ServerHas(s, "ice-candidate"))
         /\ rooms[s] = {}
       => \A t \in Clients \ {s} : rooms[t] # {} => toClient'[t] = toClient[t]]_vars

\* ---- roles by join order

\* the PeerRefs of page c for id that are initiators (or responders)
RoleLinks(c, id, initiator) ==
  {i \in Matches(peersRef[c], id) : peersRef[c][i].initiator = initiator}

\* C31: of two pages whose join-room the relay accepted, every PeerRef the earlier
\* holds for the later is an initiator and every PeerRef the later holds for the
\* earlier a responder; no two pages hold initiators for each other; and no page
\* drops an offer because it already holds a PeerRef for the sender.
C31_RolesByJoinOrder ==
  /\ [](\A i, j \in 1..Len(joinOrder) :
          i < j => /\ RoleLinks(joinOrder[i], joinOrder[j], FALSE) = {}
                   /\ RoleLinks(joinOrder[j], joinOrder[i], TRUE) = {})
  /\ [](\A a, b \in Clients :
          RoleLinks(a, b, TRUE) = {} \/ RoleLinks(b, a, TRUE) = {})
  /\ [][\A c \in Clients :
          Handles(c, "offer") => ~HasPeer(c, Head(toClient[c]).id)]_vars

\* a pair joined in order holds both links of the pair, in the roles of the claim
C31_Witness ==
  \E i, j \in 1..Len(joinOrder) :
    /\ i < j
    /\ RoleLinks(joinOrder[i], joinOrder[j], TRUE) # {}
    /\ RoleLinks(joinOrder[j], joinOrder[i], FALSE) # {}

\* ---- the swap of a restart

\* the SimplePeer instance of a PeerRef is not destroyed
Alive(p) == p.st \notin {"Closed", "Failed"}

\* the track of a kind the sender of a PeerRef sends: the last it was given
Sending(p, kind) == CHOOSE t \in p.senders[kind] : \A u \in p.senders[kind] : u <= t

\* the restartMedia calls of page c that splice their new track in, in this step
Splices(c) ==
  {j \in 1..Len(restarts[c]) :
     /\ restarts[c][j].phase = "acquiring"
     /\ tracks'[c][restarts[c][j].type] = tracks[c][restarts[c][j].type] + 1
     /\ restarts'[c] = [restarts[c] EXCEPT ![j].phase = "replacing"]}

\* the restartMedia calls of page c that return after their swaps, in this step
Completes(c) ==
  {j \in 1..Len(restarts[c]) :
     restarts[c][j].phase = "replacing" /\ restarts'[c] = RemoveAt(restarts[c], j)}

\* C32 as the spec states it: the restart gives its new track to the sender of
\* every PeerRef that is Connected, and to no other.
C32_SwapOnConnectedOnly ==
  [][\A j \in Splices(Me) : \A i \in 1..Len(peersRef[Me]) :
       (Sending(peersRef'[Me][i], restarts[Me][j].type) # Sending(peersRef[Me][i], restarts[Me][j].type))
         => peersRef[Me][i].st = "Connected"]_vars

\* C32: the restart gives its new track to the sender of every PeerRef whose
\* instance is not destroyed and has a sender for the stopped track, connected or
\* not, and to no other; a PeerRef whose swap throws is left as it was and the others
\* are swapped all the same; the call goes on to its finally block, which clears
\* restartingMode and sets no error.
C32_SwapOnLiveLinks ==
  /\ [][tracks'[Me] # tracks[Me] =>
          /\ Splices(Me) # {}
          /\ \A j \in Splices(Me) :
               LET kind == restarts[Me][j].type
                   fresh == tracks'[Me][kind]
               IN  /\ Len(peersRef'[Me]) = Len(peersRef[Me])
                   /\ \A i \in 1..Len(peersRef[Me]) :
                        LET p == peersRef[Me][i]
                        IN  peersRef'[Me][i] =
                              IF Alive(p) /\ restarts[Me][j].old \in p.senders[kind]
                              THEN [p EXCEPT !.senders[kind] = @ \cup {fresh}]
                              ELSE p]_vars
  /\ [][Completes(Me) # {} =>
          restartingMode'[Me] = None /\ error'[Me] = error[Me]]_vars
  /\ [](\A j \in 1..Len(restarts[Me]) :
          restarts[Me][j].phase = "replacing" => ENABLED RestartReplaced(Me, j))

\* a restart has spliced its track in: one PeerRef that is not Connected sends it,
\* and the swap threw on another PeerRef, which is alive and sends an older track
C32_Witness ==
  \E j \in 1..Len(restarts[Me]) : \E a, b \in 1..Len(peersRef[Me]) :
    LET kind == restarts[Me][j].type
        p == peersRef[Me][a]
        q == peersRef[Me][b]
    IN  /\ restarts[Me][j].phase = "replacing"
        /\ Alive(p) /\ p.st # "Connected"
        /\ Cardinality(p.senders[kind]) > 1 /\ Sending(p, kind) = tracks[Me][kind]
        /\ Alive(q) /\ Sending(q, kind) < tracks[Me][kind]

\* C33: when a restartMedia call returns after its swaps, the sender of every
\* PeerRef whose instance is not destroyed sends the track the stream holds.
C33_LiveLinksSendFresh ==
  [][\A j \in Completes(Me) : \A i \in 1..Len(peersRef[Me]) :
       Alive(peersRef[Me][i]) =>
         Sending(peersRef[Me][i], restarts[Me][j].type) = tracks[Me][restarts[Me][j].type]]_vars

\* ---- the speaking timer at its deadline

\* a stamp is written for the link x in this step
Stamped(x) == speakingActivity'[Me][x] # speakingActivity[Me][x]

\* one frame of a tracker loop of page c runs in this step
Frame(c) ==
  \E i \in 1..Len(speakLoops[c]) :
    /\ ~speakLoops[c][i].checked
    /\ \/ speakLoops'[c] = [speakLoops[c] EXCEPT ![i].checked = TRUE]
       \/ speakLoops'[c] = RemoveAt(speakLoops[c], i)

Samplers(c, x) ==
  {i \in 1..Len(speakLoops[c]) : speakLoops[c][i].peerId = x /\ x \in audioContextsRef[c]}

\* C35: no link has two loops that sample it, and a frame of a loop started before
\* the tracker was last re-initialised (its context is closed) runs no further:
\* it leaves the link's timer as it is.
C35_OneSampler ==
  /\ [](\A x \in Clients : Cardinality(Samplers(Me, x)) <= 1)
  /\ [][\A i \in 1..Len(speakLoops[Me]) :
          /\ speakLoops[Me][i].frozen >= 0
          /\ speakLoops'[Me] = [speakLoops[Me] EXCEPT ![i].checked = TRUE]
          /\ ~speakLoops[Me][i].checked
          => UNCHANGED speakingTimersRef]_vars

\* ---- the timers of the other links

\* this step is about the party q: the page handles a join, an offer, a departure or
\* a state change of q, or the stream of q arrives
Concerns(q) ==
  \/ \E t \in {"user-connected", "offer", "user-disconnected", "peer-state-changed"} :
       Handles(Me, t) /\ Head(toClient[Me]).id = q
  \/ \E i \in 1..Len(peersRef[Me]) :
       /\ Len(peersRef'[Me]) = Len(peersRef[Me])
       /\ peersRef[Me][i].peerId = q
       /\ ~peersRef[Me][i].stream /\ peersRef'[Me][i].stream

\* C36: a step about the party q leaves the running timer of every other link, and
\* the instant it was started at, as they were.
C36_OtherTimersKept ==
  [][\A q \in Clients \ {Me} : Concerns(q) =>
       \A x \in Clients \ {q} :
         speakingTimersRef[Me][x] # NoTimer /\ ~speakingTimersRef[Me][x].fired =>
           speakingTimersRef'[Me][x] = speakingTimersRef[Me][x]]_vars

\* ---- what a page shows of the other's buttons

\* the value a flag of a PeerRef is rendered as: undefined renders as false
Shown(flag) == flag = <<TRUE>>

\* C37: once everything is delivered, the PeerRef a joined page y holds for a joined
\* page x shows the muted and videoOff of x.
C37_RemoteStateSynced ==
  Settled =>
    \A x, y \in Pair :
      cphase[x] = "joined" /\ cphase[y] = "joined" =>
        \A i \in Matches(peersRef[y], x) :
          /\ Shown(peersRef[y][i].muted) = muted[x]
          /\ Shown(peersRef[y][i].videoOff) = videoOff[x]

\* ---- the departure of a socket that joined more than once

\* C38: when a socket whose join-room was accepted disconnects, one
\* user-disconnected is sent to each other socket of the room it joined first, and
\* nothing to any other socket.
C38_OnePeerLeft ==
  [][\A s \in Clients :
       Serves(s, "disconnect") /\ hooks[s] # <<>> =>
         \A t \in Clients \ {s} :
           toClient'[t] =
             IF t \in SocketTo(rooms, s, hooks[s][1].room)
             THEN Append(toClient[t], Msg("user-disconnected", None, hooks[s][1].id, None))
             ELSE toClient[t]]_vars

\* ---- a page that gets no media

\* the packets in flight, to the relay or to a page
InFlight == UNION {{toServer[c][i] : i \in 1..Len(toServer[c])} : c \in Clients}
              \cup UNION {{toClient[c][i] : i \in 1..Len(toClient[c])} : c \in Clients}

\* C39: the step in which the getUserMedia of the mount effect is rejected sets the
\* page's error and emits nothing; from then on the page has its error set, has sent
\* no packet, is in no room and has no disconnect listener, holds no PeerRef, and no
\* packet in flight and no PeerRef of another page names it.
C39_DeniedStaysOut ==
  /\ [][\A c \in Clients :
          cphase[c] = "idle" /\ cphase'[c] = "denied" =>
            error'[c] /\ UNCHANGED <<toServer, toClient, peersRef, serverVars>>]_vars
  /\ [](\A c \in Clients :
          cphase[c] = "denied" =>
            /\ error[c]
            /\ toServer[c] = <<>> /\ toClient[c] = <<>>
            /\ rooms[c] = {} /\ hooks[c] = <<>> /\ userNames[c] = None
            /\ peersRef[c] = <<>>
            /\ \A d \in Clients : Matches(peersRef[d], c) = {}
            /\ \A m \in InFlight : m.id # c)

\* s3 was refused its devices while s1 and s2 joined and hold their links
C39_Witness ==
  /\ cphase["s3"] = "denied" /\ error["s3"]
  /\ RoleLinks("s1", "s2", TRUE) # {} \/ RoleLinks("s1", "s2", FALSE) # {}
  /\ RoleLinks("s2", "s1", TRUE) # {} \/ RoleLinks("s2", "s1", FALSE) # {}
  /\ Settled

====
